---------------------------- MODULE Spec2Model ----------------------------
(***************************************************************************)
(* Tenant context of the community template (src/src/db/tenant.ts).        *)
(*                                                                         *)
(* The module-level slot currentTenantId, the helpers that read it         *)
(* (getCurrentTenant, withTenantFilter, withTenantId), the resolution of a *)
(* request's tenant (getTenantFromRequest) and the API route wrapper       *)
(* withTenant, whose async body is a sequence of atomic segments separated *)
(* by awaits.  Requests in flight on one process interleave at those       *)
(* awaits.                                                                 *)
(***************************************************************************)
EXTENDS Integers, Sequences, FiniteSets, TLC

VARIABLES
    currentTenantId,  \* tenant.ts:11  let currentTenantId
    pc,               \* per request: where its withTenant wrapper stands
    req,              \* per request: the req object given to the wrapper
    tenantId,         \* per request: tenant.ts:115  const tenantId
    settled,          \* per request: how the handler's promise settled
    result,           \* per request: how the wrapper's promise settled
    table,            \* rows of one tenant-scoped table
    store,            \* the tables the route handlers use, and the mail outbox
    now,              \* Date.now() of the server process
    sessions,         \* session.ts:24  global.authSessions
    setCookies,       \* the Set-Cookie headers the session route has sent
    calls,            \* per request: a route handler suspended at an await
    provider,         \* TenantProvider's state, props and fetches in flight
    last              \* the call made by the latest step, with what it returned

vars ==
    <<currentTenantId, pc, req, tenantId, settled, result, table, store, now,
      sessions, setCookies, calls, provider, last>>

\* The state outside the tenant context and the tables.
processVars == <<now, sessions, setCookies, calls, provider>>

\* The tenant context of tenant.ts and the table its helpers scope.
tenantVars ==
    <<currentTenantId, pc, req, tenantId, settled, result, table>>

----------------------------------------------------------------------------
(* Bounds *)

\* Requests that can be in flight on the process at the same time.
MaxRequests == 2

RequestIds == 1..MaxRequests

----------------------------------------------------------------------------
(* JavaScript values of a header or query entry: string | string[] | undefined *)

Undefined == [type |-> "undefined"]
Str(s) == [type |-> "string", value |-> s]
Arr(items) == [type |-> "object", items |-> items]

\* ToBoolean: undefined and "" are falsy, every array (object) is truthy.
Truthy(v) ==
    \/ v.type = "object"
    \/ v.type = "string" /\ v.value # ""

\* typeof v === 'string'
TypeofString(v) == v.type = "string"

\* obj[key] of a JavaScript object: undefined when the key is absent.
Lookup(obj, key) == IF key \in DOMAIN obj THEN obj[key] ELSE Undefined

NoEntries == [k \in {} |-> Undefined]
Entry(key, v) == [k \in {key} |-> v]

\* schema: export const DEFAULT_TENANT_ID = 'default'
DEFAULT_TENANT_ID == "default"

----------------------------------------------------------------------------
(* tenant.ts: the slot's accessors, as the value they give the slot or return *)

\* A setCurrentTenant that leaves the slot as it was.
setCurrentTenant_Dropped(t) == currentTenantId

\* setCurrentTenant(tenantId): currentTenantId = tenantId
setCurrentTenant(t) == t

\* getCurrentTenant(): return currentTenantId
getCurrentTenant == currentTenantId

\* A resetTenant that leaves the slot as it was.
resetTenant_Noop == currentTenantId

\* resetTenant(): currentTenantId = DEFAULT_TENANT_ID
resetTenant == DEFAULT_TENANT_ID

\* A getTenantFromRequest that looks at the query parameter first.
getTenantFromRequest_QueryFirst(q) ==
    LET headerTenant == Lookup(q.headers, "x-tenant-id")
        queryTenant == Lookup(q.query, "tenant")
    IN  IF Truthy(queryTenant) /\ TypeofString(queryTenant)
        THEN queryTenant.value
        ELSE IF Truthy(headerTenant) /\ TypeofString(headerTenant)
             THEN headerTenant.value
             ELSE DEFAULT_TENANT_ID

\* A getTenantFromRequest whose fallback is the empty string.
getTenantFromRequest_EmptyFallback(q) ==
    LET headerTenant == Lookup(q.headers, "x-tenant-id")
        queryTenant == Lookup(q.query, "tenant")
    IN  IF Truthy(headerTenant) /\ TypeofString(headerTenant)
        THEN headerTenant.value
        ELSE IF Truthy(queryTenant) /\ TypeofString(queryTenant)
             THEN queryTenant.value
             ELSE ""

\* A getTenantFromRequest that never reads the query parameter.
getTenantFromRequest_HeaderOnly(q) ==
    LET headerTenant == Lookup(q.headers, "x-tenant-id")
    IN  IF Truthy(headerTenant) /\ TypeofString(headerTenant)
        THEN headerTenant.value
        ELSE DEFAULT_TENANT_ID

\* A getTenantFromRequest that falls back to the slot's current value.
getTenantFromRequest_SlotFallback(q) ==
    LET headerTenant == Lookup(q.headers, "x-tenant-id")
        queryTenant == Lookup(q.query, "tenant")
    IN  IF Truthy(headerTenant) /\ TypeofString(headerTenant)
        THEN headerTenant.value
        ELSE IF Truthy(queryTenant) /\ TypeofString(queryTenant)
             THEN queryTenant.value
             ELSE currentTenantId

\* A resolution that takes the first value of a multi-valued header.
getTenantFromRequest_FirstOfArray(q) ==
    LET headerTenant == Lookup(q.headers, "x-tenant-id")
        queryTenant == Lookup(q.query, "tenant")
    IN  IF Truthy(headerTenant) /\ TypeofString(headerTenant)
        THEN headerTenant.value
        ELSE IF headerTenant.type = "object" /\ headerTenant.items # <<>>
             THEN headerTenant.items[1]
             ELSE IF Truthy(queryTenant) /\ TypeofString(queryTenant)
                  THEN queryTenant.value
                  ELSE DEFAULT_TENANT_ID

\* getTenantFromRequest(req): header, then query parameter, then default.
getTenantFromRequest(q) ==
    LET headerTenant == Lookup(q.headers, "x-tenant-id")
        queryTenant == Lookup(q.query, "tenant")
    IN  IF Truthy(headerTenant) /\ TypeofString(headerTenant)
        THEN headerTenant.value
        ELSE IF Truthy(queryTenant) /\ TypeofString(queryTenant)
             THEN queryTenant.value
             ELSE DEFAULT_TENANT_ID

----------------------------------------------------------------------------
(* drizzle-orm conditions over a tenant-scoped table (schema: posts) *)

NULL == "<NULL>"

\* Columns the model keeps of a row; tenant_id and type are notNull with a
\* default, eventId is nullable.  The primary key is left out: rows are told
\* apart by their content.
Columns == {"tenantId", "type", "eventId", "content"}

ColumnDefault(c) ==
    CASE c = "tenantId" -> DEFAULT_TENANT_ID
      [] c = "type" -> "post"
      [] OTHER -> NULL

\* The row an insert of `values` stores: absent columns take their default.
InsertedRow(values) ==
    [c \in Columns |-> IF c \in DOMAIN values THEN values[c] ELSE ColumnDefault(c)]

\* An omitted existingCondition argument.
NoCondition == [op |-> "undefined"]

\* eq(column, value): column = value
eq(column, value) == [op |-> "eq", column |-> column, value |-> value]

\* and(a, b): (a and b)
and(a, b) == [op |-> "and", left |-> a, right |-> b]

\* SQL's three-valued conjunction.
And3(x, y) ==
    IF x = "FALSE" \/ y = "FALSE" THEN "FALSE"
    ELSE IF x = "NULL" \/ y = "NULL" THEN "NULL"
    ELSE "TRUE"

RECURSIVE SqlEval(_, _)
SqlEval(cond, row) ==
    IF cond.op = "eq"
    THEN IF row[cond.column] = NULL \/ cond.value = NULL THEN "NULL"
         ELSE IF row[cond.column] = cond.value THEN "TRUE" ELSE "FALSE"
    ELSE And3(SqlEval(cond.left, row), SqlEval(cond.right, row))

\* A row satisfies a where clause when the clause evaluates to true for it.
Satisfies(row, cond) == SqlEval(cond, row) = "TRUE"

\* db.select().from(table).where(cond)
Select(cond) == {row \in table : Satisfies(row, cond)}

\* A withTenantFilter that returns the caller's condition alone when given one.
withTenantFilter_CallerOnly(tenantIdColumn, existingCondition) ==
    LET tenantCondition == eq(tenantIdColumn, currentTenantId)
    IN  IF existingCondition.op # "undefined"
        THEN existingCondition
        ELSE tenantCondition

\* withTenantFilter(tenantIdColumn, existingCondition?)
withTenantFilter(tenantIdColumn, existingCondition) ==
    LET tenantCondition == eq(tenantIdColumn, currentTenantId)
    IN  IF existingCondition.op # "undefined"
        THEN and(tenantCondition, existingCondition)
        ELSE tenantCondition

\* A withTenantId that forgets to spread data: { tenantId: currentTenantId }
withTenantId_TenantOnly(data) == [f \in {"tenantId"} |-> currentTenantId]

\* A withTenantId that spreads data last: { tenantId: currentTenantId, ...data }
withTenantId_DataLast(data) ==
    [f \in DOMAIN data \cup {"tenantId"} |->
        IF f \in DOMAIN data THEN data[f] ELSE currentTenantId]

\* withTenantId(data): { ...data, tenantId: currentTenantId }
withTenantId(data) ==
    [f \in DOMAIN data \cup {"tenantId"} |->
        IF f = "tenantId" THEN currentTenantId ELSE data[f]]

----------------------------------------------------------------------------
(* The requests, handler arguments and rows the model draws from *)

Row(t, type, eventId, content) ==
    [tenantId |-> t, type |-> type, eventId |-> eventId, content |-> content]

\* The table before any request: rows of three tenants, the default included.
SeedRows ==
    { Row(DEFAULT_TENANT_ID, "post", NULL, "d1"),
      Row(DEFAULT_TENANT_ID, "intro", "e1", "d2"),
      Row("acme", "post", NULL, "a1"),
      Row("acme", "post", "e1", "a2"),
      Row("acme", "intro", NULL, "a3"),
      Row("beta", "post", "e1", "b1") }

\* Requests the wrapped handlers receive.
HandledRequests ==
    { [headers |-> NoEntries, query |-> NoEntries],
      [headers |-> Entry("x-tenant-id", Str("acme")),
       query |-> Entry("tenant", Str("beta"))],
      [headers |-> NoEntries, query |-> Entry("tenant", Str("beta"))] }

\* Data a handler passes to withTenantId; the second carries a tenantId of
\* its own.
InsertData ==
    { [content |-> "new"],
      [content |-> "new", tenantId |-> "beta"] }

\* Conditions a handler passes to withTenantFilter as existingCondition.
CallerConditions ==
    { NoCondition,
      eq("type", "post"),
      eq("eventId", "e1"),
      and(eq("type", "post"), eq("eventId", "e1")) }

ReturnValues == {"V1"}
Errors == {"E1"}

Pending == [kind |-> "pending"]
Returned(v) == [kind |-> "return", value |-> v]
Thrown(e) == [kind |-> "throw", value |-> e]

NONE == "<none>"

\* A request is in flight from its setCurrentTenant to its resetTenant.
InFlight(r) == pc[r] \in {"handler", "settled"}

----------------------------------------------------------------------------
(* The tables of the API route handlers (schema) *)

\* export type UserRole
UserRoles == {"user", "organizer", "mentor", "admin"}

\* The users table: one user of every role; the plain user has no e-mail
\* address.  The handlers modelled here never write it.
UsersTable ==
    { [id |-> "u_user", tenantId |-> DEFAULT_TENANT_ID, role |-> "user",
       email |-> NULL, accountAddress |-> <<"0", "x", "A", "1">>],
      [id |-> "u_org", tenantId |-> DEFAULT_TENANT_ID, role |-> "organizer",
       email |-> "org@example.com",
       accountAddress |-> <<>>],
      [id |-> "u_mentor", tenantId |-> DEFAULT_TENANT_ID, role |-> "mentor",
       email |-> "mentor@example.com",
       accountAddress |-> <<>>],
      [id |-> "u_admin", tenantId |-> DEFAULT_TENANT_ID, role |-> "admin",
       email |-> "admin@example.com",
       accountAddress |-> <<>>] }

\* The members table: the users who joined the community.
MembersTable ==
    { [userId |-> "u_user", tenantId |-> DEFAULT_TENANT_ID],
      [userId |-> "u_org", tenantId |-> DEFAULT_TENANT_ID],
      [userId |-> "u_mentor", tenantId |-> DEFAULT_TENANT_ID] }

PostsColumns == {"id", "tenantId", "userId", "content", "imageUrl"}
MessagesColumns == {"id", "tenantId", "userId", "content"}
EventsColumns == {"id", "tenantId", "creatorId", "title", "eventDate"}
EventRsvpsColumns == {"id", "tenantId", "eventId", "userId", "status"}
PostLikesColumns == {"id", "tenantId", "postId", "userId"}
BroadcastsColumns ==
    {"id", "tenantId", "senderId", "subject", "content", "status",
     "recipientCount", "sentCount", "failedCount"}

\* .default(...) of a column; a column without one is NULL when omitted.
SchemaDefault(c) ==
    CASE c = "tenantId" -> DEFAULT_TENANT_ID
      [] c = "status" -> "draft"
      [] c \in {"recipientCount", "sentCount", "failedCount"} -> 0
      [] OTHER -> NULL

\* db.insert(t).values(v): the row stored, omitted columns at their default.
InsertValues(columns, values) ==
    [c \in columns |->
        IF c \in DOMAIN values THEN values[c] ELSE SchemaDefault(c)]

\* Every table in insertion order, which is the order of createdAt; outbox
\* holds the messages handed to the mail provider.
EmptyStore ==
    [posts |-> <<>>, messages |-> <<>>, events |-> <<>>,
     eventRsvps |-> <<>>, postLikes |-> <<>>,
     broadcasts |-> <<>>, outbox |-> <<>>]

----------------------------------------------------------------------------
(* The server process and the browser before any request or render *)

\* new Map()
EmptyMap == [k \in {} |-> NULL]

\* global.authSessions = new Map(): `keys` are the tokens in the map, `heap`
\* the AuthSession object made for each token, which outlives its entry
\* while a handler holds a reference to it.
NoSessions == [keys |-> {}, heap |-> EmptyMap]

\* No handler invocation is suspended in this slot.
Idle == [pc |-> "idle"]

\* defaultCommunityConfig: its name, its branding and two colours of its
\* theme.
defaultCommunityConfig ==
    [name |-> "Community",
     branding |-> [logo |-> NULL, favicon |-> "/favicon.ico"],
     theme |-> [primary |-> "#7B5CFF", accent |-> "#7B5CFF"]]

\* TenantProvider has not been rendered; activeConfig is a copy of the
\* default.
Unmounted == [mounted |-> FALSE, activeConfig |-> defaultCommunityConfig]

----------------------------------------------------------------------------
(* withTenant: the wrapper around a request handler *)

\* The process before any request, its tables and the latest call apart.
Started ==
    /\ currentTenantId = DEFAULT_TENANT_ID
    /\ pc = [r \in RequestIds |-> "idle"]
    /\ req = [r \in RequestIds |-> NONE]
    /\ tenantId = [r \in RequestIds |-> NONE]
    /\ settled = [r \in RequestIds |-> Pending]
    /\ result = [r \in RequestIds |-> Pending]
    /\ table = SeedRows
    /\ now = 0
    /\ sessions = NoSessions
    /\ setCookies = <<>>
    /\ calls = [r \in RequestIds |-> Idle]
    /\ provider = Unmounted

Init ==
    /\ Started
    /\ store = EmptyStore
    /\ last = [op |-> "init"]

\* A wrapper that reads the handler's tenantId argument from the slot before
\* setting it.
withTenant_ArgumentFromSlot(r) ==
    /\ pc[r] \in {"idle", "done"}
    /\ \E q \in HandledRequests :
         /\ req' = [req EXCEPT ![r] = q]
         /\ tenantId' = [tenantId EXCEPT ![r] = getCurrentTenant]
         /\ currentTenantId' = setCurrentTenant(getTenantFromRequest(q))
    /\ pc' = [pc EXCEPT ![r] = "handler"]
    /\ settled' = [settled EXCEPT ![r] = Pending]
    /\ result' = [result EXCEPT ![r] = Pending]
    /\ last' = [op |-> "withTenant", r |-> r]
    /\ UNCHANGED <<table, store>>
    /\ UNCHANGED processVars

\* tenant.ts:115-119  a request arrives: resolve its tenant, set the slot and
\* call the handler, which runs up to its first await.
withTenant(r) ==
    /\ pc[r] \in {"idle", "done"}
    /\ \E q \in HandledRequests :
         /\ req' = [req EXCEPT ![r] = q]
         /\ tenantId' = [tenantId EXCEPT ![r] = getTenantFromRequest(q)]
         /\ currentTenantId' = setCurrentTenant(getTenantFromRequest(q))
    /\ pc' = [pc EXCEPT ![r] = "handler"]
    /\ settled' = [settled EXCEPT ![r] = Pending]
    /\ result' = [result EXCEPT ![r] = Pending]
    /\ last' = [op |-> "withTenant", r |-> r]
    /\ UNCHANGED <<table, store>>
    /\ UNCHANGED processVars

\* A segment of the handler that calls getCurrentTenant().
handlerGetCurrentTenant(r) ==
    /\ pc[r] = "handler"
    /\ last' = [op |-> "getCurrentTenant", r |-> r, out |-> getCurrentTenant]
    /\ UNCHANGED <<currentTenantId, pc, req, tenantId, settled, result, table, store>>
    /\ UNCHANGED processVars

\* A segment of the handler that inserts withTenantId(data).
handlerInsert(r) ==
    /\ pc[r] = "handler"
    /\ \E data \in InsertData :
         /\ last' = [op |-> "withTenantId", r |-> r, data |-> data,
                     out |-> withTenantId(data)]
         /\ table' = table \cup {InsertedRow(withTenantId(data))}
    /\ UNCHANGED <<currentTenantId, pc, req, tenantId, settled, result, store>>
    /\ UNCHANGED processVars

\* A segment of the handler that selects where withTenantFilter(column, e).
handlerSelect(r) ==
    /\ pc[r] = "handler"
    /\ \E e \in CallerConditions :
         last' = [op |-> "withTenantFilter", r |-> r, existing |-> e,
                  out |-> withTenantFilter("tenantId", e),
                  rows |-> Select(withTenantFilter("tenantId", e))]
    /\ UNCHANGED <<currentTenantId, pc, req, tenantId, settled, result, table, store>>
    /\ UNCHANGED processVars

\* The handler's promise fulfils with a value.
handlerReturns(r) ==
    /\ pc[r] = "handler"
    /\ \E v \in ReturnValues : settled' = [settled EXCEPT ![r] = Returned(v)]
    /\ pc' = [pc EXCEPT ![r] = "settled"]
    /\ last' = [op |-> "handlerReturns", r |-> r]
    /\ UNCHANGED <<currentTenantId, req, tenantId, result, table, store>>
    /\ UNCHANGED processVars

\* The handler throws, or its promise rejects.
handlerThrows(r) ==
    /\ pc[r] = "handler"
    /\ \E e \in Errors : settled' = [settled EXCEPT ![r] = Thrown(e)]
    /\ pc' = [pc EXCEPT ![r] = "settled"]
    /\ last' = [op |-> "handlerThrows", r |-> r]
    /\ UNCHANGED <<currentTenantId, req, tenantId, result, table, store>>
    /\ UNCHANGED processVars

\* A wrapper that resets the slot on the normal path only (no finally).
withTenantFinally_ResetOnReturnOnly(r) ==
    /\ pc[r] = "settled"
    /\ currentTenantId' =
         IF settled[r].kind = "throw" THEN currentTenantId ELSE resetTenant
    /\ result' = [result EXCEPT ![r] = settled[r]]
    /\ pc' = [pc EXCEPT ![r] = "done"]
    /\ req' = [req EXCEPT ![r] = NONE]
    /\ tenantId' = [tenantId EXCEPT ![r] = NONE]
    /\ last' = [op |-> "withTenantFinally", r |-> r,
                tenantId |-> tenantId[r], before |-> currentTenantId]
    /\ UNCHANGED <<settled, table, store>>
    /\ UNCHANGED processVars

\* A wrapper that catches the handler's error and resolves with undefined.
withTenantFinally_Swallow(r) ==
    /\ pc[r] = "settled"
    /\ currentTenantId' = resetTenant
    /\ result' = [result EXCEPT ![r] =
                    IF settled[r].kind = "throw" THEN Returned("undefined")
                    ELSE settled[r]]
    /\ pc' = [pc EXCEPT ![r] = "done"]
    /\ req' = [req EXCEPT ![r] = NONE]
    /\ tenantId' = [tenantId EXCEPT ![r] = NONE]
    /\ last' = [op |-> "withTenantFinally", r |-> r,
                tenantId |-> tenantId[r], before |-> currentTenantId]
    /\ UNCHANGED <<settled, table, store>>
    /\ UNCHANGED processVars

\* A wrapper whose cleanup hands the slot to a request still in flight, when
\* there is one, instead of resetting it to the default.
withTenantFinally_RestoreInFlight(r) ==
    /\ pc[r] = "settled"
    /\ currentTenantId' =
         IF \E o \in RequestIds \ {r} : InFlight(o)
         THEN tenantId[CHOOSE o \in RequestIds \ {r} : InFlight(o)]
         ELSE resetTenant
    /\ result' = [result EXCEPT ![r] = settled[r]]
    /\ pc' = [pc EXCEPT ![r] = "done"]
    /\ req' = [req EXCEPT ![r] = NONE]
    /\ tenantId' = [tenantId EXCEPT ![r] = NONE]
    /\ last' = [op |-> "withTenantFinally", r |-> r,
                tenantId |-> tenantId[r], before |-> currentTenantId]
    /\ UNCHANGED <<settled, table, store>>
    /\ UNCHANGED processVars

\* tenant.ts:118-123  the wrapper resumes after the await: the finally block
\* resets the slot, then the wrapper's promise settles as the handler's did.
\* `last` keeps the tenant the request had resolved and the slot's value
\* before the reset.
withTenantFinally(r) ==
    /\ pc[r] = "settled"
    /\ currentTenantId' = resetTenant
    /\ result' = [result EXCEPT ![r] = settled[r]]
    /\ pc' = [pc EXCEPT ![r] = "done"]
    /\ req' = [req EXCEPT ![r] = NONE]
    /\ tenantId' = [tenantId EXCEPT ![r] = NONE]
    /\ last' = [op |-> "withTenantFinally", r |-> r,
                tenantId |-> tenantId[r], before |-> currentTenantId]
    /\ UNCHANGED <<settled, table, store>>
    /\ UNCHANGED processVars

Next ==
    \E r \in RequestIds :
        \/ withTenant(r)
        \/ handlerGetCurrentTenant(r)
        \/ handlerInsert(r)
        \/ handlerSelect(r)
        \/ handlerReturns(r)
        \/ handlerThrows(r)
        \/ withTenantFinally(r)

\* Requests interleave at their awaits.
Spec == Init /\ [][Next]_vars

\* One request at a time: a request starts only when none is in flight.
withTenantAlone(r) ==
    /\ \A o \in RequestIds : ~InFlight(o)
    /\ withTenant(r)

SeqNext ==
    \E r \in RequestIds :
        \/ withTenantAlone(r)
        \/ handlerGetCurrentTenant(r)
        \/ handlerInsert(r)
        \/ handlerSelect(r)
        \/ handlerReturns(r)
        \/ handlerThrows(r)
        \/ withTenantFinally(r)

SeqSpec == Init /\ [][SeqNext]_vars

----------------------------------------------------------------------------
(* The helpers called directly, one call at a time, as a test would *)

\* Tenant ids given to setCurrentTenant, which accepts any string.
TenantIds == {DEFAULT_TENANT_ID, "acme", "beta", ""}

HelperData ==
    InsertData \cup
    { NoEntries,
      [content |-> "new", type |-> "intro"],
      [content |-> "new", tenantId |-> DEFAULT_TENANT_ID] }

\* Every row over the values the model uses.
AllRows ==
    { Row(t, type, eventId, content) :
        t \in TenantIds, type \in {"post", "intro"},
        eventId \in {NULL, "e1"}, content \in {"new"} }

callSetCurrentTenant ==
    /\ \E t \in TenantIds : currentTenantId' = setCurrentTenant(t)
    /\ UNCHANGED <<pc, req, tenantId, settled, result, table, store, last>>
    /\ UNCHANGED processVars

callResetTenant ==
    /\ currentTenantId' = resetTenant
    /\ UNCHANGED <<pc, req, tenantId, settled, result, table, store, last>>
    /\ UNCHANGED processVars

callGetCurrentTenant ==
    /\ last' = [op |-> "getCurrentTenant", active |-> currentTenantId,
                out |-> getCurrentTenant]
    /\ UNCHANGED <<currentTenantId, pc, req, tenantId, settled, result, table, store>>
    /\ UNCHANGED processVars

callWithTenantFilter ==
    /\ \E e \in CallerConditions :
         last' = [op |-> "withTenantFilter", active |-> currentTenantId,
                  existing |-> e, out |-> withTenantFilter("tenantId", e)]
    /\ UNCHANGED <<currentTenantId, pc, req, tenantId, settled, result, table, store>>
    /\ UNCHANGED processVars

callWithTenantId ==
    /\ \E data \in HelperData :
         last' = [op |-> "withTenantId", active |-> currentTenantId,
                  data |-> data, out |-> withTenantId(data)]
    /\ UNCHANGED <<currentTenantId, pc, req, tenantId, settled, result, table, store>>
    /\ UNCHANGED processVars

helperGetTenantFromRequest ==
    /\ \E q \in HandledRequests :
         last' = [op |-> "getTenantFromRequest", req |-> q,
                  out |-> getTenantFromRequest(q)]
    /\ UNCHANGED <<currentTenantId, pc, req, tenantId, settled, result, table, store>>
    /\ UNCHANGED processVars

HelperNext ==
    \/ callSetCurrentTenant
    \/ callResetTenant
    \/ callGetCurrentTenant
    \/ callWithTenantFilter
    \/ callWithTenantId
    \/ helperGetTenantFromRequest

\* `last` keeps the latest helper result while the slot moves on.
HelperSpec == Init /\ [][HelperNext]_vars

----------------------------------------------------------------------------
(* getTenantFromRequest applied to requests of every shape *)

\* What a header or query entry can hold when present.
EntryValues ==
    { Str(""), Str(DEFAULT_TENANT_ID), Str("acme"), Str("beta"),
      Arr(<<>>), Arr(<<"acme">>), Arr(<<"acme", "beta">>) }

AllRequests ==
    { [headers |-> h, query |-> q] :
        h \in {NoEntries} \cup {Entry("x-tenant-id", v) : v \in EntryValues},
        q \in {NoEntries} \cup {Entry("tenant", v) : v \in EntryValues} }

ResolveInit ==
    /\ currentTenantId \in TenantIds
    /\ pc = [r \in RequestIds |-> "idle"]
    /\ req = [r \in RequestIds |-> NONE]
    /\ tenantId = [r \in RequestIds |-> NONE]
    /\ settled = [r \in RequestIds |-> Pending]
    /\ result = [r \in RequestIds |-> Pending]
    /\ table = SeedRows
    /\ store = EmptyStore
    /\ now = 0
    /\ sessions = NoSessions
    /\ setCookies = <<>>
    /\ calls = [r \in RequestIds |-> Idle]
    /\ provider = Unmounted
    /\ \E q \in AllRequests : last = [op |-> "request", req |-> q]

callGetTenantFromRequest ==
    /\ last.op = "request"
    /\ last' = [op |-> "getTenantFromRequest", req |-> last.req,
                out |-> getTenantFromRequest(last.req)]
    /\ UNCHANGED <<currentTenantId, pc, req, tenantId, settled, result, table, store>>
    /\ UNCHANGED processVars

nextRequest ==
    /\ last.op = "getTenantFromRequest"
    /\ \E q \in AllRequests : last' = [op |-> "request", req |-> q]
    /\ UNCHANGED <<currentTenantId, pc, req, tenantId, settled, result, table, store>>
    /\ UNCHANGED processVars

ResolveNext ==
    \/ callGetTenantFromRequest
    \/ nextRequest

ResolveSpec == ResolveInit /\ [][ResolveNext]_vars

----------------------------------------------------------------------------
(* API route handlers: request bodies and the caller of a request *)

\* Rows a route handler's table holds at most.
MaxRows == 2

\* A string of a JSON body, as the sequence of its characters.
Text(chars) == [type |-> "string", value |-> chars]
Number(n) == [type |-> "number", value |-> n]
Boolean(b) == [type |-> "boolean", value |-> b]

\* ToBoolean of a body value.
TruthyBody(v) ==
    CASE v.type = "string" -> v.value # <<>>
      [] v.type = "number" -> v.value # 0
      [] v.type = "boolean" -> v.value
      [] OTHER -> FALSE

RECURSIVE trimStart(_)
trimStart(s) == IF s # <<>> /\ Head(s) = " " THEN trimStart(Tail(s)) ELSE s

RECURSIVE trimEnd(_)
trimEnd(s) ==
    IF s # <<>> /\ s[Len(s)] = " "
    THEN trimEnd(SubSeq(s, 1, Len(s) - 1))
    ELSE s

\* String.prototype.trim
trim(s) == trimEnd(trimStart(s))

\* !v || typeof v !== 'string' || v.trim().length === 0
BlankOrMissing(v) ==
    \/ ~TruthyBody(v)
    \/ v.type # "string"
    \/ Len(trim(v.value)) = 0

\* A caller the handlers treat as absent (null).
NoUser == [id |-> NULL]

\* getUserById(id) of @/db/user: the users row of that id, or null.
getUserById(id) ==
    IF \E u \in UsersTable : u.id = id
    THEN CHOOSE u \in UsersTable : u.id = id
    ELSE NoUser

\* isOrganizer(user) of @/db/user: organizers, and admins, who can do
\* everything organizers can.
isOrganizer(user) == user.role \in {"organizer", "admin"}

\* getUserFromRequest(req) of the posts, messages and events routes:
\* ?userId= first, then the user_session cookie.
getUserFromRequest(q) ==
    LET userId == Lookup(q.query, "userId")
        session == Lookup(q.cookies, "user_session")
    IN  IF Truthy(userId) /\ TypeofString(userId)
        THEN getUserById(userId.value)
        ELSE IF Truthy(session)
             THEN getUserById(session.value)
             ELSE NoUser

\* A request to a route: tenant entries t, ?userId=u, cookie user_session=c.
RouteRequest(method, t, u, c, body) ==
    [method |-> method,
     headers |-> t.headers,
     query |-> IF u = NONE THEN t.query
               ELSE Entry("userId", Str(u)) @@ t.query,
     cookies |-> IF c = NONE THEN NoEntries
                 ELSE Entry("user_session", Str(c)),
     body |-> body]

\* A request that names no tenant.
NoTenantEntries == [headers |-> NoEntries, query |-> NoEntries]

\* What a request presents of the user ids `ids`: ?userId= alone, the cookie
\* alone, or both, naming different users.
Credentials(ids) ==
    { [userId |-> u, session |-> NONE] : u \in ids }
    \cup { [userId |-> NONE, session |-> c] : c \in ids }
    \cup { [userId |-> "u_user", session |-> "u_admin"],
           [userId |-> "u_admin", session |-> "u_user"] }

\* The uuid of a new row: one no row of the table has.
NewId(rows) == Len(rows) + 1

Reverse(s) == [i \in 1..Len(s) |-> s[Len(s) + 1 - i]]

\* .limit(n) of a query
Limit(s, n) == SubSeq(s, 1, IF Len(s) < n THEN Len(s) ELSE n)

----------------------------------------------------------------------------
(* /api/posts and /api/messages *)

\* User ids the feed requests carry: none, one no user has, a user, an admin.
FeedCallers == {NONE, "ghost", "u_user", "u_admin"}

FeedBodies ==
    { NoEntries,
      Entry("content", Number(7)),
      Entry("content", Text(<<" ">>)),
      Entry("content", Text(<<" ", "h", "i">>)) }

\* Reads carry no credentials and no limit or offset.
FeedGets == { RouteRequest("GET", t, NONE, NONE, NoEntries) : t \in HandledRequests }

FeedPosts ==
    { RouteRequest("POST", t, k.userId, k.session, b) :
        t \in HandledRequests, k \in Credentials(FeedCallers),
        b \in FeedBodies }

\* parseInt(req.query.limit) || 20 and parseInt(req.query.offset) || 0
\* of a request without the parameters.
PostsDefaultLimit == 20
MaxPostLength == 2000
MessagesLimit == 50
MaxMessageLength == 500

\* GET /api/posts: the newest posts, one page of them.
postsGet ==
    \E q \in FeedGets :
        LET limit == PostsDefaultLimit
            postsWithUsers == Limit(Reverse(store.posts), limit + 1)
            hasMore == Len(postsWithUsers) > limit
            postsToReturn ==
                IF hasMore
                THEN SubSeq(postsWithUsers, 1, Len(postsWithUsers) - 1)
                ELSE postsWithUsers
        IN  /\ last' = [op |-> "GET /api/posts", req |-> q, status |-> 200,
                        rows |-> postsToReturn, before |-> store]
            /\ UNCHANGED <<currentTenantId, pc, req, tenantId, settled, result,
                           table, store>>
            /\ UNCHANGED processVars

\* POST /api/posts
postsPost ==
    \E q \in FeedPosts :
        LET user == getUserFromRequest(q)
            content == Lookup(q.body, "content")
            status ==
                IF user = NoUser THEN 401
                ELSE IF BlankOrMissing(content) THEN 400
                ELSE IF Len(content.value) > MaxPostLength THEN 400
                ELSE 201
            newPost ==
                [id |-> NewId(store.posts), userId |-> user.id,
                 content |-> trim(content.value), imageUrl |-> NULL]
        IN  /\ status = 201 => Len(store.posts) < MaxRows
            /\ store' =
                 IF status = 201
                 THEN [store EXCEPT
                         !.posts = Append(@, InsertValues(PostsColumns, newPost))]
                 ELSE store
            /\ last' = [op |-> "POST /api/posts", req |-> q, status |-> status,
                        before |-> store]
            /\ UNCHANGED <<currentTenantId, pc, req, tenantId, settled, result,
                           table>>
            /\ UNCHANGED processVars

\* GET /api/messages: the last 50 messages, oldest first.
messagesGet ==
    \E q \in FeedGets :
        LET messagesWithUsers == Limit(Reverse(store.messages), MessagesLimit)
        IN  /\ last' = [op |-> "GET /api/messages", req |-> q, status |-> 200,
                        rows |-> Reverse(messagesWithUsers), before |-> store]
            /\ UNCHANGED <<currentTenantId, pc, req, tenantId, settled, result,
                           table, store>>
            /\ UNCHANGED processVars

\* POST /api/messages
messagesPost ==
    \E q \in FeedPosts :
        LET user == getUserFromRequest(q)
            content == Lookup(q.body, "content")
            status ==
                IF user = NoUser THEN 401
                ELSE IF BlankOrMissing(content) THEN 400
                ELSE IF Len(content.value) > MaxMessageLength THEN 400
                ELSE 201
            newMessage ==
                [id |-> NewId(store.messages), userId |-> user.id,
                 content |-> trim(content.value)]
        IN  /\ status = 201 => Len(store.messages) < MaxRows
            /\ store' =
                 IF status = 201
                 THEN [store EXCEPT
                         !.messages =
                             Append(@, InsertValues(MessagesColumns, newMessage))]
                 ELSE store
            /\ last' = [op |-> "POST /api/messages", req |-> q,
                        status |-> status, before |-> store]
            /\ UNCHANGED <<currentTenantId, pc, req, tenantId, settled, result,
                           table>>
            /\ UNCHANGED processVars

FeedNext ==
    \/ postsGet
    \/ postsPost
    \/ messagesGet
    \/ messagesPost

FeedSpec == Init /\ [][FeedNext]_vars

----------------------------------------------------------------------------
(* /api/admin/broadcasts *)

\* User ids the admin and events requests carry: none, one no user has, and
\* a user of every role.
RoleCallers == {NONE, "ghost"} \cup {u.id : u \in UsersTable}

BroadcastBodies ==
    { Entry("content", Text(<<"h", "i">>)),
      Entry("subject", Text(<<"n", "e", "w", "s">>))
          @@ Entry("content", Text(<<"h", "i">>)),
      Entry("subject", Text(<<"n", "e", "w", "s">>))
          @@ Entry("content", Text(<<"h", "i">>))
          @@ Entry("sendNow", Boolean(FALSE)) }

BroadcastRequests ==
    { RouteRequest(m, NoTenantEntries, k.userId, k.session, NoEntries) :
        m \in {"GET", "DELETE"}, k \in Credentials(RoleCallers) }
    \cup
    { RouteRequest("POST", NoTenantEntries, k.userId, k.session, b) :
        k \in Credentials(RoleCallers), b \in BroadcastBodies }

\* The rows of a select over a set of rows, in some fixed order.
RECURSIVE Rows(_)
Rows(S) ==
    IF S = {} THEN <<>>
    ELSE LET x == CHOOSE y \in S : TRUE
         IN  <<x>> \o Rows(S \ {x})

\* The members with an e-mail address: `members` joined with users, mapped to
\* recipients.
memberRecipients(members) ==
    Rows({ [email |-> u.email] :
             u \in { v \in UsersTable :
                       /\ \E m \in members : m.userId = v.id
                       /\ v.email # NULL } })

BroadcastsLimit == 50

\* A handler that lets every known user through.
broadcastsAccess_AnyUser(q) ==
    LET session == Lookup(q.cookies, "user_session")
        userId == IF Truthy(session) THEN session ELSE Lookup(q.query, "userId")
    IN  IF ~Truthy(userId) THEN 401
        ELSE IF getUserById(userId.value) = NoUser THEN 401
        ELSE 200

\* The head of the handler: 401 without a known user, 403 unless the user is
\* an admin; 200 stands for going on to the method.
broadcastsAccess(q) ==
    LET session == Lookup(q.cookies, "user_session")
        userId == IF Truthy(session) THEN session ELSE Lookup(q.query, "userId")
    IN  IF ~Truthy(userId) THEN 401
        ELSE IF getUserById(userId.value) = NoUser THEN 401
        ELSE IF getUserById(userId.value).role # "admin" THEN 403
        ELSE 200

\* The user the handler looked up.
broadcastsUser(q) ==
    LET session == Lookup(q.cookies, "user_session")
        userId == IF Truthy(session) THEN session ELSE Lookup(q.query, "userId")
    IN  IF Truthy(userId) THEN getUserById(userId.value) ELSE NoUser

\* const BATCH_SIZE
BATCH_SIZE == 100

\* The loop that slices recipients into batches.
Batches(recipients) ==
    [b \in 1..((Len(recipients) + BATCH_SIZE - 1) \div BATCH_SIZE) |->
        SubSeq(recipients, (b - 1) * BATCH_SIZE + 1,
               IF b * BATCH_SIZE < Len(recipients)
               THEN b * BATCH_SIZE ELSE Len(recipients))]

\* What the mail provider may do with a batch: throw, answer an error, answer
\* without data, or answer data in which none, all but one or all of the
\* e-mails have an id.
ProviderBehaviours ==
    {"throws", "error", "no data", "no ids", "all but one", "all"}

\* resend.batch.send(emails) under a behaviour.
batchSend(emails, behaviour) ==
    CASE behaviour = "throws" ->
            [throws |-> TRUE, message |-> "network"]
      [] behaviour = "error" ->
            [throws |-> FALSE, error |-> [message |-> "rejected"],
             data |-> Undefined]
      [] behaviour = "no data" ->
            [throws |-> FALSE, error |-> Undefined, data |-> Undefined]
      [] OTHER ->
            [throws |-> FALSE, error |-> Undefined,
             data |->
                [data |->
                    [i \in DOMAIN emails |->
                        [id |-> IF \/ behaviour = "all"
                                   \/ behaviour = "all but one" /\ i > 1
                                THEN Str("id") ELSE Undefined]]]]

\* data?.data?.filter(d => d.id)?.length || 0
successCount(data) ==
    IF data = Undefined THEN 0
    ELSE Len(SelectSeq(data.data, LAMBDA d : Truthy(d.id)))

\* A pass that does not count a batch the provider answers with an error.
AfterBatch_ErrorUncounted(soFar, batch, behaviour) ==
    LET answer == batchSend(batch, behaviour)
    IN  IF answer.throws
        THEN [soFar EXCEPT !.failed = @ + Len(batch),
                            !.errors = Append(@, answer.message)]
        ELSE IF answer.error # Undefined
        THEN [soFar EXCEPT !.errors = Append(@, answer.error.message)]
        ELSE [soFar EXCEPT
                !.sent = @ + successCount(answer.data),
                !.failed = @ + (Len(batch) - successCount(answer.data))]

\* One pass of the loop over the batches: the result after the batch.
AfterBatch(soFar, batch, behaviour) ==
    LET answer == batchSend(batch, behaviour)
    IN  IF answer.throws
        THEN [soFar EXCEPT !.failed = @ + Len(batch),
                            !.errors = Append(@, answer.message)]
        ELSE IF answer.error # Undefined
        THEN [soFar EXCEPT !.failed = @ + Len(batch),
                            !.errors = Append(@, answer.error.message)]
        ELSE [soFar EXCEPT
                !.sent = @ + successCount(answer.data),
                !.failed = @ + (Len(batch) - successCount(answer.data))]

\* for (const batch of batches) { ... }
RECURSIVE SendBatches(_, _, _)
SendBatches(batches, behaviours, soFar) ==
    IF batches = <<>> THEN soFar
    ELSE SendBatches(Tail(batches), Tail(behaviours),
                     AfterBatch(soFar, Head(batches), Head(behaviours)))

\* sendBroadcastEmail, the provider behaving as behaviours[b] on batch b.
sendBroadcastEmail(recipients, behaviours) ==
    LET empty == [total |-> Len(recipients), sent |-> 0, failed |-> 0,
                  errors |-> <<>>]
    IN  IF Len(recipients) = 0 THEN empty
        ELSE SendBatches(Batches(recipients), behaviours, empty)

\* Lengths of the recipient lists sendBroadcastEmail is called with: none,
\* one, and the lengths around one and two full batches.
RecipientCounts == {0, 1, 99, 100, 101, 200, 201}

Recipients(n) == [i \in 1..n |-> [email |-> i]]

\* A call of sendBroadcastEmail and what the provider will do with each of
\* its batches.
SendInit ==
    /\ Started
    /\ store = EmptyStore
    /\ \E n \in RecipientCounts :
        \E behaviours \in [1..Len(Batches(Recipients(n)))
                              -> ProviderBehaviours] :
            last = [op |-> "recipients", recipients |-> Recipients(n),
                    behaviours |-> behaviours]

callSendBroadcastEmail ==
    /\ last.op = "recipients"
    /\ last' = [op |-> "sendBroadcastEmail", recipients |-> last.recipients,
                behaviours |-> last.behaviours,
                batches |-> Batches(last.recipients),
                out |-> sendBroadcastEmail(last.recipients, last.behaviours)]
    /\ UNCHANGED <<tenantVars, store, processVars>>

SendNext == callSendBroadcastEmail

SendSpec == SendInit /\ [][SendNext]_vars

\* A handler that calls a broadcast failed as soon as one e-mail failed.
broadcastStatus_FailedOnAnyFailure(sendResult) ==
    IF sendResult.failed > 0 THEN "failed" ELSE "sent"

\* result.failed > 0 && result.sent === 0 ? 'failed' : 'sent'
broadcastStatus(sendResult) ==
    IF sendResult.failed > 0 /\ sendResult.sent = 0 THEN "failed" ELSE "sent"

\* GET and POST /api/admin/broadcasts, to the response or, for a broadcast
\* that is sent now, to the insert of its row before sendBroadcastEmail.
broadcastsHandler(r, requests, memberTables) ==
    \E q \in requests, members \in memberTables :
        LET access == broadcastsAccess(q)
            user == broadcastsUser(q)
            subject == Lookup(q.body, "subject")
            content == Lookup(q.body, "content")
            sendNow == IF "sendNow" \in DOMAIN q.body
                       THEN TruthyBody(q.body["sendNow"]) ELSE TRUE
            creates == /\ access = 200
                       /\ q.method = "POST"
                       /\ TruthyBody(subject) /\ TruthyBody(content)
            status ==
                IF access # 200 THEN access
                ELSE IF q.method = "GET" THEN 200
                ELSE IF q.method # "POST" THEN 405
                ELSE IF ~creates THEN 400
                ELSE IF sendNow THEN 0
                ELSE 200
            recipients == memberRecipients(members)
            broadcastId == NewId(store.broadcasts)
            created ==
                InsertValues(BroadcastsColumns,
                    [id |-> broadcastId, senderId |-> user.id,
                     subject |-> subject.value, content |-> content.value,
                     status |-> IF sendNow THEN "sending" ELSE "draft",
                     recipientCount |-> Len(recipients)])
        IN  /\ calls[r] = Idle
            /\ creates => Len(store.broadcasts) < MaxRows
            /\ ~creates => members = MembersTable
            /\ store' =
                 IF creates
                 THEN [store EXCEPT !.broadcasts = Append(@, created)]
                 ELSE store
            /\ calls' =
                 IF creates /\ sendNow
                 THEN [calls EXCEPT ![r] =
                         [pc |-> "sendBroadcastEmail",
                          broadcastId |-> broadcastId,
                          recipients |-> recipients,
                          subject |-> subject.value]]
                 ELSE calls
            /\ last' = [op |-> "/api/admin/broadcasts", req |-> q,
                        status |-> status, before |-> store,
                        rows |-> IF access = 200 /\ q.method = "GET"
                                 THEN Limit(Reverse(store.broadcasts),
                                            BroadcastsLimit)
                                 ELSE <<>>]
            /\ UNCHANGED <<tenantVars, now, sessions, setCookies, provider>>

\* await sendBroadcastEmail({recipients, subject, html}): the e-mails go out
\* and the result comes back.
broadcastsSends(r, behaviours) ==
    \E behaviour \in behaviours :
        LET call == calls[r]
            sendResult == sendBroadcastEmail(call.recipients, <<behaviour>>)
        IN  /\ call.pc = "sendBroadcastEmail"
            /\ call.recipients = <<>> => behaviour = "all"
            /\ store' =
                 IF call.recipients = <<>> THEN store
                 ELSE [store EXCEPT
                         !.outbox = Append(@, [to |-> call.recipients,
                                               subject |-> call.subject,
                                               broadcastId |->
                                                   call.broadcastId])]
            /\ calls' = [calls EXCEPT ![r] =
                           [pc |-> "update", broadcastId |-> call.broadcastId,
                            result |-> sendResult]]
            /\ last' = [op |-> "/api/admin/broadcasts: send",
                        broadcastId |-> call.broadcastId,
                        out |-> sendResult, before |-> store]
            /\ UNCHANGED <<tenantVars, now, sessions, setCookies, provider>>

\* db.update(broadcasts).set({status, sentCount, failedCount}) and the
\* response; a write the database refuses is caught and answered 500.
broadcastsUpdates(r, writes) ==
    \E written \in writes :
        LET call == calls[r]
        IN  /\ call.pc = "update"
            /\ store' =
                 IF ~written THEN store
                 ELSE [store EXCEPT
                         !.broadcasts =
                             [i \in DOMAIN @ |->
                                 IF @[i].id = call.broadcastId
                                 THEN [@[i] EXCEPT
                                         !.status =
                                             broadcastStatus(call.result),
                                         !.sentCount = call.result.sent,
                                         !.failedCount = call.result.failed]
                                 ELSE @[i]]]
            /\ calls' = [calls EXCEPT ![r] = Idle]
            /\ last' = [op |-> "/api/admin/broadcasts: update",
                        broadcastId |-> call.broadcastId,
                        out |-> call.result,
                        status |-> IF written THEN 200 ELSE 500,
                        before |-> store]
            /\ UNCHANGED <<tenantVars, now, sessions, setCookies, provider>>

\* Requests of every caller; the members are there, the provider accepts a
\* batch whole or answers an error, the database accepts every write.
BroadcastsNext ==
    \E r \in RequestIds :
        \/ broadcastsHandler(r, BroadcastRequests, {MembersTable})
        \/ broadcastsSends(r, {"all", "error"})
        \/ broadcastsUpdates(r, {TRUE})

BroadcastsSpec == Init /\ [][BroadcastsNext]_vars

\* The admin's POSTs, with sendNow left out, true or false.
AdminRequests ==
    { RouteRequest("POST", NoTenantEntries, NONE, "u_admin", b) :
        b \in BroadcastBodies
              \cup { Entry("subject", Text(<<"n", "e", "w", "s">>))
                       @@ Entry("content", Text(<<"h", "i">>))
                       @@ Entry("sendNow", Boolean(TRUE)) } }

\* The admin's POSTs, with or without members to write to, the provider
\* behaving in every way, the database accepting or refusing the update.
LifecycleNext ==
    \E r \in RequestIds :
        \/ broadcastsHandler(r, AdminRequests, {MembersTable, {}})
        \/ broadcastsSends(r, ProviderBehaviours)
        \/ broadcastsUpdates(r, BOOLEAN)

\* An awaited promise settles and the handler goes on.
LifecycleSpec ==
    /\ Init
    /\ [][LifecycleNext]_vars
    /\ \A r \in RequestIds :
        /\ WF_vars(broadcastsSends(r, ProviderBehaviours))
        /\ WF_vars(broadcastsUpdates(r, BOOLEAN))

----------------------------------------------------------------------------
(* POST /api/events *)

EventBodies ==
    { Entry("title", Text(<<" ", "g", "o", " ">>)),
      Entry("title", Text(<<" ">>)) @@ Entry("eventDate", Text(<<"d">>)),
      Entry("title", Text(<<" ", "g", "o", " ">>))
          @@ Entry("eventDate", Text(<<"d">>)) }

EventRequests ==
    { RouteRequest("POST", NoTenantEntries, k.userId, k.session, b) :
        k \in Credentials(RoleCallers), b \in EventBodies }

\* A handler that asks for a signed-in user only.
eventsPostStatus_AnyUser(q) ==
    LET user == getUserFromRequest(q)
    IN  IF user = NoUser THEN 401
        ELSE IF BlankOrMissing(Lookup(q.body, "title")) THEN 400
        ELSE IF ~TruthyBody(Lookup(q.body, "eventDate")) THEN 400
        ELSE 201

\* The response status of POST /api/events.
eventsPostStatus(q) ==
    LET user == getUserFromRequest(q)
    IN  IF user = NoUser THEN 401
        ELSE IF ~isOrganizer(user) THEN 403
        ELSE IF BlankOrMissing(Lookup(q.body, "title")) THEN 400
        ELSE IF ~TruthyBody(Lookup(q.body, "eventDate")) THEN 400
        ELSE 201

\* POST /api/events
eventsPost ==
    \E q \in EventRequests :
        LET user == getUserFromRequest(q)
            status == eventsPostStatus(q)
            newEvent ==
                [id |-> NewId(store.events), creatorId |-> user.id,
                 title |-> trim(q.body["title"].value),
                 eventDate |-> q.body["eventDate"].value]
        IN  /\ status = 201 => Len(store.events) < MaxRows
            /\ store' =
                 IF status = 201
                 THEN [store EXCEPT
                         !.events =
                             Append(@, InsertValues(EventsColumns, newEvent))]
                 ELSE store
            /\ last' = [op |-> "POST /api/events", req |-> q,
                        status |-> status, before |-> store]
            /\ UNCHANGED <<currentTenantId, pc, req, tenantId, settled, result,
                           table>>
            /\ UNCHANGED processVars

EventsNext == eventsPost

EventsSpec == Init /\ [][EventsNext]_vars

----------------------------------------------------------------------------
(* QR sign-in: /api/auth/session and /api/auth/qr-authenticate *)

\* const SESSION_DURATION_MS
SESSION_DURATION_MS == 5 * 60 * 1000

\* The clock moves in steps of one session lifetime, so that a session is
\* seen at its creation, at the instant it expires and after it.
Tick == SESSION_DURATION_MS

\* Steps the clock makes at most.
MaxTicks == 2

\* Sessions POST /api/auth/session creates at most.
MaxTokens == 2

\* Login cookies after which the phone starts no new request.
MaxLogins == 2

\* randomBytes(32).toString('hex'): a token no session was made for.
NewToken == ToString(Cardinality(DOMAIN sessions.heap) + 1)

\* sessions.get(token) of a map `m`
SessionGet(m, token) ==
    IF token \in m.keys THEN m.heap[token] ELSE Undefined

\* sessions.delete(token)
SessionDelete(m, token) == [m EXCEPT !.keys = @ \ {token}]

\* cleanupExpiredSessions() at time t
cleanupExpiredSessions(m, t) ==
    [m EXCEPT !.keys = {k \in @ : ~(m.heap[k].expiresAt < t)}]

\* The status GET /api/auth/session answers for `token`, the map being `m`
\* after the cleanup and the time t.
sessionGetStatus(m, t, token) ==
    IF ~(Truthy(token) /\ TypeofString(token)) THEN 400
    ELSE IF token.value \notin m.keys THEN 404
    ELSE IF m.heap[token.value].expiresAt < t THEN 404
    ELSE 200

\* What a poll or the phone sends as token: nothing, one of the tokens
\* handed out, one that never was.
TokenValues ==
    {Undefined, Str("bogus")} \cup {Str(k) : k \in DOMAIN sessions.heap}

\* POST /api/auth/session
sessionPost ==
    LET cleaned == cleanupExpiredSessions(sessions, now)
        token == NewToken
        session == [createdAt |-> now, expiresAt |-> now + SESSION_DURATION_MS,
                    authenticated |-> FALSE, userId |-> Undefined]
    IN  /\ Cardinality(DOMAIN sessions.heap) < MaxTokens
        /\ sessions' = [keys |-> cleaned.keys \cup {token},
                        heap |-> (token :> session) @@ cleaned.heap]
        /\ last' = [op |-> "POST /api/auth/session", status |-> 200,
                    token |-> token, expiresAt |-> session.expiresAt,
                    at |-> now]
        /\ UNCHANGED <<tenantVars, store, now, setCookies, calls, provider>>

\* GET /api/auth/session?token=
sessionGet ==
    \E token \in TokenValues :
        LET cleaned == cleanupExpiredSessions(sessions, now)
            status == sessionGetStatus(cleaned, now, token)
            session == cleaned.heap[token.value]
            login == /\ status = 200
                     /\ session.authenticated
                     /\ Truthy(session.userId)
        IN  /\ sessions' =
                 IF status = 404 \/ login
                 THEN SessionDelete(cleaned, token.value)
                 ELSE cleaned
            /\ setCookies' =
                 IF login
                 THEN Append(setCookies, [token |-> token.value,
                                          user_session |-> session.userId.value])
                 ELSE setCookies
            /\ last' = [op |-> "GET /api/auth/session", token |-> token,
                        status |-> status, authenticated |-> login,
                        at |-> now]
            /\ UNCHANGED <<tenantVars, store, now, calls, provider>>

\* Any other method on /api/auth/session: the cleanup, then 405.
sessionMethodNotAllowed ==
    /\ sessions' = cleanupExpiredSessions(sessions, now)
    /\ last' = [op |-> "PUT /api/auth/session", status |-> 405,
                at |-> now]
    /\ UNCHANGED <<tenantVars, store, now, setCookies, calls, provider>>

\* Time passes.
tick ==
    /\ now < MaxTicks * Tick
    /\ now' = now + Tick
    /\ UNCHANGED <<tenantVars, store, sessions, setCookies, calls, provider, last>>

\* String.prototype.toLowerCase over the characters addresses are made of.
toLowerCase(s) ==
    [i \in DOMAIN s |->
        CASE s[i] = "A" -> "a"
          [] s[i] = "B" -> "b"
          [] OTHER -> s[i]]

\* A signature the wallet of `signer` made over `message`, and a string that
\* is no signature.
SignatureBy(signer, message) ==
    [type |-> "string", wellFormed |-> TRUE, signer |-> signer,
     message |-> message]
Malformed == [type |-> "string", wellFormed |-> FALSE]

\* `Authenticate session: ${token}`, of a request value.
SessionMessage(token) ==
    <<"Authenticate session: ",
      IF token = Undefined THEN "undefined" ELSE token.value>>

\* An address no wallet of the model has.
StrangerAddress == <<"0", "x", "C", "3">>

\* ethers verifyMessage: the address that signed, in checksum case; it throws
\* on a malformed signature and recovers some other address when the
\* signature was made over another message.
verifyMessage(message, signature) ==
    IF ~signature.wellFormed THEN [throws |-> TRUE]
    ELSE IF signature.message = message
         THEN [throws |-> FALSE, address |-> signature.signer]
         ELSE [throws |-> FALSE, address |-> StrangerAddress]

\* getUserByAccountAddress of @/db/user: the user of that wallet, or null.
getUserByAccountAddress(address) ==
    LET found == {u \in UsersTable :
                    /\ u.accountAddress # <<>>
                    /\ toLowerCase(u.accountAddress) = toLowerCase(address)}
    IN  IF found = {} THEN NoUser ELSE CHOOSE u \in found : TRUE

\* The wallet of u_user and the wallet of nobody, as the phone sends them.
KnownWallet == <<"0", "x", "a", "1">>
UnknownWallet == <<"0", "x", "b", "2">>

\* What the phone posts: token, publicAddress, signature; userId and
\* renaissanceId are left out.
QrWallets(t) ==
    { <<Text(KnownWallet),
        SignatureBy(<<"0", "x", "A", "1">>, SessionMessage(t))>>,
      <<Text(UnknownWallet),
        SignatureBy(<<"0", "x", "B", "2">>, SessionMessage(t))>>,
      <<Text(KnownWallet), Malformed>>,
      <<Text(KnownWallet),
        SignatureBy(<<"0", "x", "B", "2">>, SessionMessage(t))>>,
      <<Text(KnownWallet),
        SignatureBy(<<"0", "x", "A", "1">>, SessionMessage(Str("other")))>>,
      <<Undefined, Malformed>>,
      <<Text(KnownWallet), Undefined>> }

QrBodies ==
    UNION { { [token |-> t, publicAddress |-> w[1], signature |-> w[2]] :
                w \in QrWallets(t) } : t \in TokenValues }

\* The response of qr-authenticate up to its first await; 0 stands for going
\* on to the user lookup.
qrAuthenticateStatus(body) ==
    IF ~(Truthy(body.token) /\ TypeofString(body.token)) THEN 400
    ELSE IF ~(TruthyBody(body.publicAddress)
              /\ body.publicAddress.type = "string") THEN 400
    ELSE IF ~(body.signature # Undefined) THEN 400
    ELSE IF SessionGet(sessions, body.token.value) = Undefined THEN 404
    ELSE IF SessionGet(sessions, body.token.value).expiresAt < now THEN 404
    ELSE LET recovered ==
                 verifyMessage(SessionMessage(body.token), body.signature)
         IN  IF recovered.throws THEN 401
             ELSE IF toLowerCase(recovered.address)
                        # toLowerCase(body.publicAddress.value) THEN 401
             ELSE 0

\* POST /api/auth/qr-authenticate, up to await getUserByAccountAddress.
qrAuthenticate(r) ==
    \E body \in QrBodies :
        LET status == qrAuthenticateStatus(body)
            expired == /\ status = 404
                       /\ SessionGet(sessions, body.token.value) # Undefined
        IN  /\ calls[r] = Idle
            /\ Len(setCookies) < MaxLogins
            /\ sessions' = IF expired
                           THEN SessionDelete(sessions, body.token.value)
                           ELSE sessions
            /\ calls' =
                 IF status = 0
                 THEN [calls EXCEPT ![r] =
                         [pc |-> "getUserByAccountAddress",
                          token |-> body.token.value,
                          publicAddress |-> body.publicAddress.value]]
                 ELSE calls
            /\ last' = [op |-> "POST /api/auth/qr-authenticate", r |-> r,
                        token |-> body.token, status |-> status, at |-> now]
            /\ UNCHANGED <<tenantVars, store, now, setCookies, provider>>

\* The user lookup returns: the session object is marked and set back.
qrAuthenticateResumes(r) ==
    LET token == calls[r].token
        user == getUserByAccountAddress(calls[r].publicAddress)
    IN  /\ calls[r].pc = "getUserByAccountAddress"
        /\ sessions' =
             IF user = NoUser THEN sessions
             ELSE [keys |-> sessions.keys \cup {token},
                   heap |-> [sessions.heap EXCEPT
                               ![token].authenticated = TRUE,
                               ![token].userId = Str(user.id)]]
        /\ calls' = [calls EXCEPT ![r] = Idle]
        /\ last' = [op |-> "POST /api/auth/qr-authenticate", r |-> r,
                    token |-> Str(token),
                    status |-> IF user = NoUser THEN 404 ELSE 200,
                    at |-> now]
        /\ UNCHANGED <<tenantVars, store, now, setCookies, provider>>

QrNext ==
    \/ sessionPost
    \/ sessionGet
    \/ sessionMethodNotAllowed
    \/ tick
    \/ \E r \in RequestIds :
        \/ qrAuthenticate(r)
        \/ qrAuthenticateResumes(r)

QrSpec == Init /\ [][QrNext]_vars

----------------------------------------------------------------------------
(* /api/posts/[id]/like *)

\* The uuid of a new row of a table rows are deleted from: one no row has.
FreshId(rows) ==
    CHOOSE n \in 1..(Len(rows) + 1) :
        /\ \A i \in DOMAIN rows : rows[i].id # n
        /\ \A m \in 1..(n - 1) : \E i \in DOMAIN rows : rows[i].id = m

\* req.query.id of a dynamic route
Id(v) == [type |-> "string", value |-> v]

\* A store in which u_user has published one post.
OnePost ==
    [EmptyStore EXCEPT
        !.posts = <<InsertValues(PostsColumns,
                        [id |-> 1, userId |-> "u_user",
                         content |-> <<"h", "i">>])>>]

LikeInit ==
    /\ Started
    /\ store = OnePost
    /\ last = [op |-> "init"]

\* Requests to the route: for the post, for a post that does not exist and
\* without an id; by nobody, by an id no user has and by two users.
LikeRequests ==
    { [method |-> m, id |-> i,
       query |-> IF u = NONE THEN NoEntries ELSE Entry("userId", Str(u)),
       cookies |-> NoEntries] :
        m \in {"POST", "DELETE", "GET"},
        i \in {Undefined, Id(1), Id(9)},
        u \in {NONE, "ghost", "u_user", "u_org"} }

LikesOf(postId, userId) ==
    SelectSeq(store.postLikes,
                LAMBDA row : row.postId = postId /\ row.userId = userId)

\* getLikeCount
getLikeCount(postId) ==
    Len(SelectSeq(store.postLikes, LAMBDA row : row.postId = postId))

\* The status the handler answers before it reads or writes post_likes; 0
\* stands for going on.
likeStatus(q) ==
    IF q.id = Undefined THEN 400
    ELSE IF SelectSeq(store.posts, LAMBDA row : row.id = q.id.value) = <<>>
         THEN 404
    ELSE IF q.method \in {"POST", "DELETE"}
         THEN IF getUserFromRequest(q) = NoUser THEN 401 ELSE 0
    ELSE 405

\* The handler up to the await after which post_likes may have changed: the
\* checks, and for POST the select of the existing like.
likeBegins(r) ==
    \E q \in LikeRequests :
        LET status == likeStatus(q)
            user == getUserFromRequest(q)
            existingLike == LikesOf(q.id.value, user.id)
            call == [method |-> q.method, postId |-> q.id.value,
                     userId |-> user.id]
        IN  /\ calls[r] = Idle
            /\ calls' =
                 IF status # 0 THEN calls
                 ELSE [calls EXCEPT ![r] =
                         IF q.method = "DELETE"
                         THEN call @@ [pc |-> "delete"]
                         ELSE IF existingLike # <<>>
                         THEN call @@ [pc |-> "getLikeCount", status |-> 200,
                                       liked |-> TRUE, likedAlready |-> TRUE]
                         ELSE call @@ [pc |-> "insert"]]
            /\ last' = [op |-> "/api/posts/[id]/like", r |-> r,
                        method |-> q.method, id |-> q.id, status |-> status]
            /\ UNCHANGED <<tenantVars, store, now, sessions, setCookies,
                           provider>>

\* db.insert(postLikes).values(...): the unique index on (postId, userId)
\* rejects a second row of the pair, and the handler answers 500.
likeInserts(r) ==
    LET call == calls[r]
        rejected == LikesOf(call.postId, call.userId) # <<>>
        row == [id |-> FreshId(store.postLikes), postId |-> call.postId,
                userId |-> call.userId]
    IN  /\ call.pc = "insert"
        /\ store' =
             IF rejected THEN store
             ELSE [store EXCEPT
                     !.postLikes =
                         Append(@, InsertValues(PostLikesColumns, row))]
        /\ calls' =
             [calls EXCEPT ![r] =
                 IF rejected THEN Idle
                 ELSE [call EXCEPT !.pc = "getLikeCount"]
                      @@ [status |-> 201, liked |-> TRUE,
                          likedAlready |-> FALSE]]
        /\ last' = [op |-> "/api/posts/[id]/like", r |-> r,
                    method |-> call.method, id |-> Id(call.postId),
                    userId |-> call.userId,
                    status |-> IF rejected THEN 500 ELSE 0,
                    likedAlready |-> rejected, wrote |-> ~rejected]
        /\ UNCHANGED <<tenantVars, now, sessions, setCookies, provider>>

\* db.delete(postLikes).where(postId and userId)
likeDeletes(r) ==
    LET call == calls[r]
    IN  /\ call.pc = "delete"
        /\ store' =
             [store EXCEPT
                 !.postLikes =
                     SelectSeq(@, LAMBDA row : ~(/\ row.postId = call.postId
                                                 /\ row.userId = call.userId))]
        /\ calls' =
             [calls EXCEPT ![r] =
                 [call EXCEPT !.pc = "getLikeCount"]
                 @@ [status |-> 200, liked |-> FALSE, likedAlready |-> FALSE]]
        /\ last' = [op |-> "/api/posts/[id]/like", r |-> r,
                    method |-> call.method, id |-> Id(call.postId),
                    userId |-> call.userId, status |-> 0,
                    likedAlready |-> FALSE, wrote |-> TRUE]
        /\ UNCHANGED <<tenantVars, now, sessions, setCookies, provider>>

\* await getLikeCount(db, postId), and the response
likeAnswers(r) ==
    LET call == calls[r]
    IN  /\ call.pc = "getLikeCount"
        /\ calls' = [calls EXCEPT ![r] = Idle]
        /\ last' = [op |-> "/api/posts/[id]/like", r |-> r,
                    method |-> call.method, id |-> Id(call.postId),
                    userId |-> call.userId, status |-> call.status,
                    liked |-> call.liked,
                    likeCount |-> getLikeCount(call.postId),
                    likedAlready |-> call.likedAlready, wrote |-> FALSE]
        /\ UNCHANGED <<tenantVars, store, now, sessions, setCookies,
                       provider>>

LikeNext ==
    \E r \in RequestIds :
        \/ likeBegins(r)
        \/ likeInserts(r)
        \/ likeDeletes(r)
        \/ likeAnswers(r)

LikeSpec == LikeInit /\ [][LikeNext]_vars

----------------------------------------------------------------------------
(* /api/events/[id]/rsvp *)

RSVP_STATUSES == {"going", "interested", "not_going"}

\* A store in which u_org has created one event.
OneEvent ==
    [EmptyStore EXCEPT
        !.events = <<InsertValues(EventsColumns,
                         [id |-> 1, creatorId |-> "u_org",
                          title |-> <<"g", "o">>, eventDate |-> <<"d">>])>>]

RsvpInit ==
    /\ Started
    /\ store = OneEvent
    /\ last = [op |-> "init"]

\* Requests to the route: for the event, for an event that does not exist and
\* without an id; by nobody, by an id no user has and by two users; with no
\* status, each status and a word that is none.
RsvpRequests ==
    { [method |-> m, id |-> i,
       query |-> IF u = NONE THEN NoEntries ELSE Entry("userId", Str(u)),
       cookies |-> NoEntries,
       body |-> IF s = NONE THEN NoEntries ELSE Entry("status", Str(s))] :
        m \in {"POST", "DELETE", "GET"},
        i \in {Undefined, Id(1), Id(9)},
        u \in {NONE, "ghost", "u_user", "u_org"},
        s \in {NONE, "maybe"} \cup RSVP_STATUSES }

RsvpsOf(rows, eventId, userId) ==
    SelectSeq(rows,
                LAMBDA row : row.eventId = eventId /\ row.userId = userId)

\* A handler that stores whatever status it is given, if it is given one.
rsvpStatus_AnyStatus(q) ==
    IF q.id = Undefined THEN 400
    ELSE IF SelectSeq(store.events, LAMBDA row : row.id = q.id.value) = <<>>
         THEN 404
    ELSE IF q.method = "POST"
         THEN IF getUserFromRequest(q) = NoUser THEN 401
              ELSE IF ~Truthy(Lookup(q.body, "status")) THEN 400
              ELSE IF RsvpsOf(store.eventRsvps, q.id.value,
                              getUserFromRequest(q).id) # <<>> THEN 200
              ELSE 201
    ELSE IF q.method = "DELETE"
         THEN IF getUserFromRequest(q) = NoUser THEN 401 ELSE 200
    ELSE 405

\* The response status of the route.
rsvpStatus(q) ==
    IF q.id = Undefined THEN 400
    ELSE IF SelectSeq(store.events, LAMBDA row : row.id = q.id.value) = <<>>
         THEN 404
    ELSE IF q.method = "POST"
         THEN IF getUserFromRequest(q) = NoUser THEN 401
              ELSE IF \/ ~Truthy(Lookup(q.body, "status"))
                      \/ Lookup(q.body, "status").value \notin RSVP_STATUSES
                   THEN 400
              ELSE IF RsvpsOf(store.eventRsvps, q.id.value,
                              getUserFromRequest(q).id) # <<>> THEN 200
              ELSE 201
    ELSE IF q.method = "DELETE"
         THEN IF getUserFromRequest(q) = NoUser THEN 401 ELSE 200
    ELSE 405

\* db.update(eventRsvps).set({status}).where(id = existingRsvp[0].id)
UpdateStatus(rows, id, status) ==
    [i \in DOMAIN rows |->
        IF rows[i].id = id THEN [rows[i] EXCEPT !.status = status]
        ELSE rows[i]]

\* One request to the route, handled from beginning to end.
rsvpHandler ==
    \E q \in RsvpRequests :
        LET status == rsvpStatus(q)
            user == getUserFromRequest(q)
            existingRsvp == RsvpsOf(store.eventRsvps, q.id.value, user.id)
            newRsvp == [id |-> FreshId(store.eventRsvps),
                        eventId |-> q.id.value, userId |-> user.id,
                        status |-> q.body["status"].value]
        IN  /\ store' =
                 IF q.method = "POST" /\ status = 200
                 THEN [store EXCEPT
                         !.eventRsvps =
                             UpdateStatus(@, existingRsvp[1].id,
                                          q.body["status"].value)]
                 ELSE IF q.method = "POST" /\ status = 201
                 THEN [store EXCEPT
                         !.eventRsvps =
                             Append(@, InsertValues(EventRsvpsColumns,
                                                    newRsvp))]
                 ELSE IF q.method = "DELETE" /\ status = 200
                 THEN [store EXCEPT
                         !.eventRsvps =
                             SelectSeq(@, LAMBDA row :
                                              ~(/\ row.eventId = q.id.value
                                                /\ row.userId = user.id))]
                 ELSE store
            /\ last' = [op |-> "/api/events/[id]/rsvp", req |-> q,
                        status |-> status, before |-> store]
            /\ UNCHANGED <<tenantVars, processVars>>

RsvpNext == rsvpHandler

RsvpSpec == RsvpInit /\ [][RsvpNext]_vars

----------------------------------------------------------------------------
(* TenantProvider: loading the tenant's configuration in the browser *)

\* Effect runs of the provider at most.
MaxLoads == 3

\* { ...a, ...b }
Spread(a, b) == b @@ a

\* tenantConfigs of /api/tenant/config
tenantConfigs ==
    (DEFAULT_TENANT_ID :> EmptyMap)
    @@ ("renaissance-city-detroit" :>
            [name |-> "Renaissance City",
             branding |-> [logo |-> "/images/renaissance-logo.png",
                           favicon |-> "/favicon.ico"],
             theme |-> [primary |-> "#7B5CFF", accent |-> "#FFD700"]])

\* GET /api/tenant/config?tenantId=
tenantConfigHandler(id) ==
    IF id \notin DOMAIN tenantConfigs /\ id # DEFAULT_TENANT_ID
    THEN [status |-> 404, ok |-> FALSE]
    ELSE [status |-> 200, ok |-> TRUE,
          body |-> [tenantId |-> id,
                    config |-> IF id \in DOMAIN tenantConfigs
                               THEN tenantConfigs[id] ELSE EmptyMap]]

\* setActiveConfig: the value activeConfig gets.
setActiveConfig(config) ==
    LET merged(k) == IF k \in DOMAIN config
                     THEN Spread(defaultCommunityConfig[k], config[k])
                     ELSE defaultCommunityConfig[k]
    IN  [branding |-> merged("branding"), theme |-> merged("theme")]
        @@ Spread(defaultCommunityConfig, config)

\* The tenantId prop: the default, a tenant with a configuration, and one
\* without.
ProviderTenants == {DEFAULT_TENANT_ID, "renaissance-city-detroit", "acme"}

\* What a fetch may do: bring the server's response, bring a 500, or reject.
FetchOutcomes == {"response", "500", "rejects"}

\* The provider after setConfig(config), setActiveConfig(config) and the
\* finally block of the load `load`; `current` remembers what the load of
\* the latest effect run has set.
Loaded(load, config, error) ==
    [provider EXCEPT
        !.config = config,
        !.activeConfig = setActiveConfig(config),
        !.error = IF error = NULL THEN @ ELSE error,
        !.isLoading = FALSE,
        !.loads = @ \ {load},
        !.current = IF load.id = provider.started
                    THEN [id |-> load.id, config |-> config]
                    ELSE @]

\* The provider is rendered with tenantId t, for the first time or with
\* another tenantId than before, and the effect runs loadConfig up to its
\* fetch: setIsLoading(true), setError(null).
render(t) ==
    /\ IF provider.mounted THEN provider.tenantId # t ELSE TRUE
    /\ IF provider.mounted THEN provider.started < MaxLoads ELSE TRUE
    /\ provider' =
         [mounted |-> TRUE, tenantId |-> t,
          config |-> IF provider.mounted THEN provider.config
                     ELSE defaultCommunityConfig,
          activeConfig |-> provider.activeConfig,
          isLoading |-> TRUE, error |-> NULL,
          started |-> IF provider.mounted THEN provider.started + 1 ELSE 1,
          loads |-> (IF provider.mounted THEN provider.loads ELSE {})
                    \cup {[id |-> IF provider.mounted
                                  THEN provider.started + 1 ELSE 1,
                           tenantId |-> t, pc |-> "fetch"]},
          current |-> IF provider.mounted THEN provider.current
                      ELSE [id |-> 0]]
    /\ last' = [op |-> "render", tenantId |-> t]
    /\ UNCHANGED <<tenantVars, store, now, sessions, setCookies, calls>>

\* await fetch(...) settles: on an ok response the load goes on to
\* response.json(); on a 404 it sets the defaults; on another status or a
\* rejection the catch block sets the error and the defaults.
fetchSettles ==
    \E load \in IF provider.mounted THEN provider.loads ELSE {},
       outcome \in FetchOutcomes :
        LET response == IF outcome = "response"
                        THEN tenantConfigHandler(load.tenantId)
                        ELSE [status |-> 500, ok |-> FALSE]
        IN  /\ load.pc = "fetch"
            /\ provider' =
                 IF outcome = "rejects"
                 THEN Loaded(load, defaultCommunityConfig, "TypeError")
                 ELSE IF response.ok
                 THEN [provider EXCEPT
                         !.loads = (@ \ {load})
                                   \cup {[load EXCEPT !.pc = "json"]
                                         @@ [body |-> response.body]}]
                 ELSE IF response.status = 404
                 THEN Loaded(load, defaultCommunityConfig, NULL)
                 ELSE Loaded(load, defaultCommunityConfig, "Error")
            /\ last' = [op |-> "fetch settles", id |-> load.id,
                        tenantId |-> load.tenantId, outcome |-> outcome,
                        status |-> IF outcome = "rejects" THEN 0
                                   ELSE response.status]
            /\ UNCHANGED <<tenantVars, store, now, sessions, setCookies,
                           calls>>

\* await response.json() settles: the loaded configuration is set.
jsonSettles ==
    \E load \in IF provider.mounted THEN provider.loads ELSE {} :
        /\ load.pc = "json"
        /\ provider' =
             Loaded(load, Spread(defaultCommunityConfig, load.body.config),
                    NULL)
        /\ last' = [op |-> "json settles", id |-> load.id,
                    tenantId |-> load.tenantId]
        /\ UNCHANGED <<tenantVars, store, now, sessions, setCookies, calls>>

ProviderNext ==
    \/ \E t \in ProviderTenants : render(t)
    \/ fetchSettles
    \/ jsonSettles

ProviderSpec == Init /\ [][ProviderNext]_vars

----------------------------------------------------------------------------
(* Properties of getTenantFromRequest, checked under ResolveSpec *)

\* The entry is on the request, whatever it holds.
Present(obj, key) == key \in DOMAIN obj

\* The entry holds one non-empty string.
NonEmptyString(v) == v.type = "string" /\ v.value # ""

\* The function returned what the entry holds.
ReturnedEntry(v, out) == v.type = "string" /\ v.value = out

Resolved == last.op = "getTenantFromRequest"

\* C7 as stated: whenever both the x-tenant-id header and the tenant query
\* parameter are present, getTenantFromRequest returns the header's value.
C7_HeaderPrecedence_AsStated ==
    (Resolved /\ Present(last.req.headers, "x-tenant-id")
              /\ Present(last.req.query, "tenant"))
        => ReturnedEntry(Lookup(last.req.headers, "x-tenant-id"), last.out)

\* C7, amended: whenever the x-tenant-id header is one non-empty string and
\* the tenant query parameter is present, whatever it holds,
\* getTenantFromRequest returns the header's value.
C7_HeaderPrecedence ==
    (Resolved /\ NonEmptyString(Lookup(last.req.headers, "x-tenant-id"))
              /\ Present(last.req.query, "tenant"))
        => ReturnedEntry(Lookup(last.req.headers, "x-tenant-id"), last.out)

\* Header acme and query parameter beta resolved to acme.
C7_Witness ==
    /\ Resolved
    /\ ReturnedEntry(Lookup(last.req.headers, "x-tenant-id"), "acme")
    /\ ReturnedEntry(Lookup(last.req.query, "tenant"), "beta")
    /\ last.out = "acme"

\* C8: a request with neither an x-tenant-id header nor a tenant query
\* parameter resolves to DEFAULT_TENANT_ID.
C8_Fallback ==
    (Resolved /\ ~Present(last.req.headers, "x-tenant-id")
              /\ ~Present(last.req.query, "tenant"))
        => last.out = DEFAULT_TENANT_ID

\* The request without either entry has been resolved, to the default.
C8_Witness ==
    /\ Resolved
    /\ last.req.headers = NoEntries
    /\ last.req.query = NoEntries
    /\ last.out = "default"

\* C9 as stated: a request with no x-tenant-id header and a tenant query
\* parameter q resolves to q.
C9_QueryFallback_AsStated ==
    (Resolved /\ ~Present(last.req.headers, "x-tenant-id")
              /\ Present(last.req.query, "tenant"))
        => ReturnedEntry(Lookup(last.req.query, "tenant"), last.out)

\* C9, amended: a request with no x-tenant-id header and a tenant query
\* parameter that is one non-empty string q resolves to q; header first,
\* then query parameter, then default.
C9_QueryFallback ==
    (Resolved /\ ~Present(last.req.headers, "x-tenant-id")
              /\ NonEmptyString(Lookup(last.req.query, "tenant")))
        => ReturnedEntry(Lookup(last.req.query, "tenant"), last.out)

\* No header and query parameter beta resolved to beta, not the default.
C9_Witness ==
    /\ Resolved
    /\ ~Present(last.req.headers, "x-tenant-id")
    /\ ReturnedEntry(Lookup(last.req.query, "tenant"), "beta")
    /\ last.out = "beta"
    /\ last.out # DEFAULT_TENANT_ID

\* The entry is there and holds the empty string or an array of values.
EmptyOrMultiValued(v) ==
    \/ v.type = "string" /\ v.value = ""
    \/ v.type = "object"

\* The entry is missing, empty or multi-valued.
Unusable(v) == v = Undefined \/ EmptyOrMultiValued(v)

\* C21: getTenantFromRequest treats an empty or multi-valued x-tenant-id
\* header as absent: it falls through to the tenant query parameter when that
\* is one non-empty string, else to DEFAULT_TENANT_ID, and an empty or
\* multi-valued query parameter is passed over the same way; a non-empty
\* string is returned verbatim, and every request is answered with a string.
C21_EmptyOrMultiValuedIsAbsent ==
    Resolved =>
        LET header == Lookup(last.req.headers, "x-tenant-id")
            query == Lookup(last.req.query, "tenant")
        IN  /\ (EmptyOrMultiValued(header) /\ NonEmptyString(query))
                  => last.out = query.value
            /\ (EmptyOrMultiValued(header) /\ Unusable(query))
                  => last.out = DEFAULT_TENANT_ID
            /\ (Unusable(header) /\ EmptyOrMultiValued(query))
                  => last.out = DEFAULT_TENANT_ID
            /\ NonEmptyString(header) => last.out = header.value
            /\ last.out \in {DEFAULT_TENANT_ID, "acme", "beta"}

\* A header holding two values was passed over for the query parameter beta.
C21_Witness ==
    /\ Resolved
    /\ Lookup(last.req.headers, "x-tenant-id") = Arr(<<"acme", "beta">>)
    /\ Lookup(last.req.query, "tenant") = Str("beta")
    /\ last.out = "beta"

----------------------------------------------------------------------------
(* Properties of withTenantId and withTenantFilter, checked under HelperSpec *)

\* The caller's condition, when one was given, is satisfied by the row.
CallerSatisfied(row, existing) ==
    existing.op = "undefined" \/ Satisfies(row, existing)

\* C5: withTenantId(data) called while the active tenant is T returns a
\* record whose tenantId field is T, for every T and every data.
C5_WithTenantIdCarriesActiveTenant ==
    last.op = "withTenantId"
        => /\ "tenantId" \in DOMAIN last.out
           /\ last.out.tenantId = last.active

\* withTenantId was called under acme with data that named beta, and the
\* record it returned names acme.
C5_Witness ==
    /\ last.op = "withTenantId"
    /\ last.active = "acme"
    /\ "tenantId" \in DOMAIN last.data
    /\ last.data.tenantId = "beta"
    /\ last.out.tenantId = "acme"

\* C6: a condition built by withTenantFilter while the active tenant is T is
\* satisfied by no row whose tenant column differs from T, and by a row whose
\* tenant column is T exactly when the caller's condition (if any) is
\* satisfied; T is the tenant active when the condition was built, whatever
\* the slot holds later.
C6_WithTenantFilterScopesToActiveTenant ==
    last.op = "withTenantFilter"
        => \A row \in AllRows \cup SeedRows :
             /\ row.tenantId # last.active => ~Satisfies(row, last.out)
             /\ row.tenantId = last.active
                  => (Satisfies(row, last.out)
                        <=> CallerSatisfied(row, last.existing))

\* A condition was built under acme with a caller's condition, the slot has
\* moved on to beta since, and the condition tells acme's rows apart by the
\* caller's condition while rejecting a beta row the caller's condition
\* accepts.
C6_Witness ==
    /\ last.op = "withTenantFilter"
    /\ last.active = "acme"
    /\ currentTenantId = "beta"
    /\ last.existing.op # "undefined"
    /\ \E row \in SeedRows : row.tenantId = "acme" /\ Satisfies(row, last.out)
    /\ \E row \in SeedRows : row.tenantId = "acme" /\ ~Satisfies(row, last.out)
    /\ \E row \in SeedRows :
         /\ row.tenantId = "beta"
         /\ Satisfies(row, last.existing)
         /\ ~Satisfies(row, last.out)

\* C17: getTenantFromRequest, getCurrentTenant, withTenantFilter and
\* withTenantId leave currentTenantId unchanged: every step that changes the
\* slot is a setCurrentTenant or a resetTenant; and what getTenantFromRequest
\* returned for a request is what it returns for it under any later value of
\* the slot.
C17_OnlySettersMoveTheSlot ==
    /\ [](Resolved => last.out = getTenantFromRequest(last.req))
    /\ [][currentTenantId' # currentTenantId
            => (callSetCurrentTenant \/ callResetTenant)]_vars

\* The request with no header and no query parameter was resolved to the
\* default, and the slot holds acme.
C17_Witness ==
    /\ Resolved
    /\ last.req.headers = NoEntries
    /\ last.req.query = NoEntries
    /\ last.out = DEFAULT_TENANT_ID
    /\ currentTenantId = "acme"

----------------------------------------------------------------------------
(* Properties of withTenant, checked under Spec and SeqSpec *)

\* The latest step was a helper call made by a handler.
HelperCall == last.op \in {"getCurrentTenant", "withTenantFilter", "withTenantId"}

\* The tenant id a where clause built by withTenantFilter compares with.
TenantOfFilter(cond) == IF cond.op = "eq" THEN cond.value ELSE cond.left.value

\* The tenant id the latest helper call used.
TenantUsed ==
    CASE last.op = "getCurrentTenant" -> last.out
      [] last.op = "withTenantId" -> last.out.tenantId
      [] last.op = "withTenantFilter" -> TenantOfFilter(last.out)

NoneInFlight == \A r \in RequestIds : ~InFlight(r)

\* C1: between a request's setCurrentTenant and its resetTenant, every
\* getCurrentTenant, withTenantFilter and withTenantId call made for the
\* request uses the tenant id getTenantFromRequest resolved for it, for any
\* number of requests on the process.
C1_TenantIsolation ==
    HelperCall => TenantUsed = getTenantFromRequest(req[last.r])

\* C2: with requests handled one after the other, getCurrentTenant() at every
\* point of a request's handler is the tenant id resolved from that request's
\* header and query, whatever the earlier request resolved to and whether it
\* returned or threw.
C2_SequentialRequestsSeeOwnTenant ==
    \A r \in RequestIds :
        pc[r] = "handler"
            => /\ getCurrentTenant = getTenantFromRequest(req[r])
               /\ (last.op = "getCurrentTenant" /\ last.r = r)
                    => last.out = getTenantFromRequest(req[r])

\* A request resolved to beta reads beta in its handler after an earlier
\* request, which had inserted a row under acme, threw and was reset.
C2_Witness ==
    \E r1, r2 \in RequestIds :
        /\ r1 # r2
        /\ pc[r1] = "done"
        /\ result[r1].kind = "throw"
        /\ Row("acme", "post", NULL, "new") \in table
        /\ pc[r2] = "handler"
        /\ getTenantFromRequest(req[r2]) = "beta"
        /\ last.op = "getCurrentTenant"
        /\ last.r = r2
        /\ last.out = "beta"

\* C3: once a wrapped handler has thrown and its wrapper has rethrown, with
\* no other request in flight, getCurrentTenant() is DEFAULT_TENANT_ID.
C3_ResetAfterThrow ==
    (NoneInFlight /\ \E r \in RequestIds : result[r].kind = "throw")
        => getCurrentTenant = DEFAULT_TENANT_ID

\* A request that had resolved acme threw while the slot held acme; its
\* wrapper has just finished, nothing is in flight and the slot is the
\* default.
C3_Witness ==
    /\ last.op = "withTenantFinally"
    /\ result[last.r].kind = "throw"
    /\ last.tenantId = "acme"
    /\ last.before = "acme"
    /\ NoneInFlight
    /\ currentTenantId = DEFAULT_TENANT_ID

\* C4: the wrapper settles as the handler did, with the same value or the
\* same error, and only once resetTenant has run.
C4_OutcomePassedThrough ==
    /\ \A r \in RequestIds :
         /\ pc[r] = "done" <=> result[r].kind # "pending"
         /\ pc[r] = "done"
              => /\ result[r].kind = settled[r].kind
                 /\ result[r].value = settled[r].value
    /\ last.op = "withTenantFinally" => currentTenantId = DEFAULT_TENANT_ID

\* One wrapper has rethrown its handler's error E1 and another has returned
\* its handler's value V1.
C4_Witness ==
    \E r1, r2 \in RequestIds :
        /\ pc[r1] = "done" /\ settled[r1] = Thrown("E1") /\ result[r1] = Thrown("E1")
        /\ pc[r2] = "done" /\ settled[r2] = Returned("V1") /\ result[r2] = Returned("V1")

\* C10: a request with header x-tenant-id: acme whose wrapped handler selects
\* through withTenantFilter gets exactly the rows whose tenant column is acme
\* (and that satisfy the caller's condition, if any).
C10_AcmeRequestReadsAcmeRows ==
    (/\ last.op = "withTenantFilter"
     /\ ReturnedEntry(Lookup(req[last.r].headers, "x-tenant-id"), "acme"))
        => last.rows = {row \in table : /\ row.tenantId = "acme"
                                        /\ CallerSatisfied(row, last.existing)}

\* C11: with one request at a time, every helper call made during a request
\* uses the tenant id resolved for that request, and between requests the
\* slot is the default.
C11_OneAtATimeIsCorrect ==
    /\ HelperCall => /\ TenantUsed = tenantId[last.r]
                     /\ tenantId[last.r] = getTenantFromRequest(req[last.r])
    /\ NoneInFlight => currentTenantId = DEFAULT_TENANT_ID
    /\ \A r \in RequestIds : InFlight(r) => currentTenantId = tenantId[r]

\* After a request that inserted a row under beta has completed, a request
\* resolved to acme builds a filter in its handler, and the filter compares
\* with acme.
C11_Witness ==
    \E r1, r2 \in RequestIds :
        /\ r1 # r2
        /\ pc[r1] = "done"
        /\ Row("beta", "post", NULL, "new") \in table
        /\ pc[r2] = "handler"
        /\ tenantId[r2] = "acme"
        /\ last.op = "withTenantFilter"
        /\ last.r = r2
        /\ TenantOfFilter(last.out) = "acme"

\* C12: with requests interleaving at awaits, a request A suspended in its
\* handler reads the tenant of the request B that set the slot after it:
\* when B has just set the slot, the slot holds B's tenant whoever else is
\* in flight, and every helper call is scoped to what the slot holds.
C12_HelpersFollowTheSlot ==
    /\ last.op = "withTenant" => currentTenantId = tenantId[last.r]
    /\ HelperCall => TenantUsed = currentTenantId

\* Request A resolved acme, request B resolved beta and is in flight, and
\* A's handler has just called withTenantId, which returned a record of
\* tenant beta.
C12_Witness ==
    \E A, B \in RequestIds :
        /\ A # B
        /\ pc[A] = "handler" /\ tenantId[A] = "acme"
        /\ InFlight(B) /\ tenantId[B] = "beta"
        /\ last.op = "withTenantId"
        /\ last.r = A
        /\ last.out.tenantId = "beta"

\* C14: whenever no wrapped request is in flight, currentTenantId is
\* DEFAULT_TENANT_ID, for any number and any interleaving of requests.
C14_ResetInvariant ==
    NoneInFlight => currentTenantId = DEFAULT_TENANT_ID

\* Two requests have completed, one by returning and one by throwing; the
\* last to finish had resolved beta and found the slot already reset by the
\* other, and the slot is the default now.
C14_Witness ==
    \E r1, r2 \in RequestIds :
        /\ result[r1].kind = "return"
        /\ result[r2].kind = "throw"
        /\ NoneInFlight
        /\ last.op = "withTenantFinally"
        /\ last.tenantId = "beta"
        /\ last.before = DEFAULT_TENANT_ID
        /\ currentTenantId = DEFAULT_TENANT_ID

\* C19: the tenantId the wrapper passes to the handler is the tenant id
\* resolved from the request's own header and query, under every
\* interleaving, also while getCurrentTenant() returns another value.
C19_HandlerArgumentIsOwnTenant ==
    \A r \in RequestIds :
        InFlight(r) => tenantId[r] = getTenantFromRequest(req[r])

\* A request resolved to acme holds acme as its handler argument while the
\* slot, set by a later request, holds beta.
C19_Witness ==
    \E r \in RequestIds :
        /\ pc[r] = "handler"
        /\ ReturnedEntry(Lookup(req[r].headers, "x-tenant-id"), "acme")
        /\ tenantId[r] = "acme"
        /\ getCurrentTenant = "beta"

\* C20: when a wrapped request completes while a request for a non-default
\* tenant X is still in flight, the slot becomes DEFAULT_TENANT_ID, not X,
\* and a withTenantId or withTenantFilter call made from there uses the
\* default tenant.
C20_ResetRestoresDefault ==
    (/\ last.op = "withTenantFinally"
     /\ \E A \in RequestIds : InFlight(A) /\ tenantId[A] # DEFAULT_TENANT_ID)
        => /\ currentTenantId = DEFAULT_TENANT_ID
           /\ \A data \in InsertData :
                withTenantId(data).tenantId = DEFAULT_TENANT_ID
           /\ \A e \in CallerConditions :
                TenantOfFilter(withTenantFilter("tenantId", e)) = DEFAULT_TENANT_ID

\* Request B has just completed while request A, resolved to acme, is still
\* in its handler; the slot held acme before B's reset and is the default
\* now.
C20_Witness ==
    \E A \in RequestIds :
        /\ last.op = "withTenantFinally"
        /\ last.r # A
        /\ pc[A] = "handler"
        /\ tenantId[A] = "acme"
        /\ last.before = "acme"
        /\ currentTenantId = DEFAULT_TENANT_ID

----------------------------------------------------------------------------
(* Properties of the feed routes, checked under FeedSpec *)

RouteTenant == getTenantFromRequest(last.req)

\* The row a 201 response of a feed route has just stored.
StoredPost == store.posts[Len(store.posts)]
StoredMessage == store.messages[Len(store.messages)]

\* C13: the data access of the route handlers is tenant-scoped: for a request
\* resolved to tenant T, GET /api/posts and GET /api/messages return only
\* rows whose tenant_id is T, and the row POST /api/posts or
\* POST /api/messages inserts is stored with tenant_id T.
C13_RouteDataIsTenantScoped ==
    /\ last.op \in {"GET /api/posts", "GET /api/messages"}
         => \A i \in 1..Len(last.rows) : last.rows[i].tenantId = RouteTenant
    /\ (last.op = "POST /api/posts" /\ last.status = 201)
         => StoredPost.tenantId = RouteTenant
    /\ (last.op = "POST /api/messages" /\ last.status = 201)
         => StoredMessage.tenantId = RouteTenant

----------------------------------------------------------------------------
(* Properties of the broadcasts route, checked under BroadcastsSpec *)

Broadcasting == last.op = "/api/admin/broadcasts"

\* The user id the request presents: the cookie, else ?userId=.
PresentedId(q) ==
    IF Truthy(Lookup(q.cookies, "user_session"))
    THEN Lookup(q.cookies, "user_session")
    ELSE Lookup(q.query, "userId")

Unauthenticated(q) == ~Truthy(PresentedId(q))

UnknownCaller(q) ==
    /\ Truthy(PresentedId(q))
    /\ \A u \in UsersTable : u.id # PresentedId(q).value

NotAdmin(q) ==
    /\ Truthy(PresentedId(q))
    /\ \E u \in UsersTable : u.id = PresentedId(q).value /\ u.role # "admin"

\* C15: broadcasts are restricted to admins: a GET or POST to
\* /api/admin/broadcasts by a caller who is unauthenticated, unknown or not an
\* admin is answered 401 or 403, creates or changes no broadcast row and
\* sends no e-mail.
C15_BroadcastsAreAdminOnly ==
    (/\ Broadcasting
     /\ last.req.method \in {"GET", "POST"}
     /\ Unauthenticated(last.req) \/ UnknownCaller(last.req) \/ NotAdmin(last.req))
        => /\ last.status \in {401, 403}
           /\ Unauthenticated(last.req) \/ UnknownCaller(last.req)
                => last.status = 401
           /\ NotAdmin(last.req) => last.status = 403
           /\ store.broadcasts = last.before.broadcasts
           /\ store.outbox = last.before.outbox
           /\ last.rows = <<>>

\* An organizer's complete POST is refused with 403 after an admin has sent a
\* broadcast.
C15_Witness ==
    /\ Broadcasting
    /\ last.req.method = "POST"
    /\ PresentedId(last.req) = Str("u_org")
    /\ TruthyBody(Lookup(last.req.body, "subject"))
    /\ TruthyBody(Lookup(last.req.body, "content"))
    /\ last.status = 403
    /\ Len(store.broadcasts) = 1
    /\ Len(store.outbox) = 1

----------------------------------------------------------------------------
(* Properties of the events route, checked under EventsSpec *)

CreatingEvent == last.op = "POST /api/events"

EventCaller == getUserFromRequest(last.req)

ValidEvent(body) ==
    /\ ~BlankOrMissing(Lookup(body, "title"))
    /\ TruthyBody(Lookup(body, "eventDate"))

\* C16: only organizers and admins create events: POST /api/events answers
\* 401 to an unauthenticated caller and 403 to a user who is neither organizer
\* nor admin, inserting nothing; for an organizer or admin with a valid title
\* and date exactly one event row is inserted, its creatorId the caller.
C16_OnlyOrganizersCreateEvents ==
    CreatingEvent =>
        /\ EventCaller = NoUser
             => last.status = 401 /\ store = last.before
        /\ (EventCaller # NoUser /\ EventCaller.role \notin {"organizer", "admin"})
             => last.status = 403 /\ store = last.before
        /\ (/\ EventCaller # NoUser
            /\ EventCaller.role \in {"organizer", "admin"}
            /\ ValidEvent(last.req.body))
             => /\ last.status = 201
                /\ Len(store.events) = Len(last.before.events) + 1
                /\ SubSeq(store.events, 1, Len(last.before.events))
                     = last.before.events
                /\ store.events[Len(store.events)].creatorId = EventCaller.id
                /\ [store EXCEPT !.events = last.before.events] = last.before

\* A mentor's complete POST is refused with 403 after an organizer and an
\* admin have each created an event.
C16_Witness ==
    /\ CreatingEvent
    /\ EventCaller # NoUser
    /\ EventCaller.role = "mentor"
    /\ ValidEvent(last.req.body)
    /\ last.status = 403
    /\ Len(store.events) = 2
    /\ store.events[1].creatorId = "u_org"
    /\ store.events[2].creatorId = "u_admin"

----------------------------------------------------------------------------
(* Properties of the QR sign-in, checked under QrSpec *)

\* The last request was GET /api/auth/session with a string token.
Polled ==
    /\ last.op = "GET /api/auth/session"
    /\ TypeofString(last.token)

\* The login cookies issued before the last request was handled.
CookiesBefore ==
    IF last.op = "GET /api/auth/session" /\ last.authenticated
    THEN SubSeq(setCookies, 1, Len(setCookies) - 1)
    ELSE setCookies

\* C22: a QR auth session is single-use: once a GET /api/auth/session for a
\* token has returned authenticated:true and set the user_session cookie,
\* every later GET for that token returns 404, and a token yields the login
\* cookie at most once.
C22_SessionIsSingleUse ==
    /\ \A i, j \in DOMAIN setCookies :
        setCookies[i].token = setCookies[j].token => i = j
    /\ (/\ Polled
        /\ \E i \in DOMAIN CookiesBefore :
            CookiesBefore[i].token = last.token.value)
       => last.status = 404

\* The last request was POST /api/auth/qr-authenticate for a session that has
\* been created, and it has been answered.
QrAnswered ==
    /\ last.op = "POST /api/auth/qr-authenticate"
    /\ last.status # 0
    /\ TypeofString(last.token)
    /\ last.token.value \in DOMAIN sessions.heap

\* C23: a QR auth session never authenticates after it expires: for a token
\* whose expiresAt is earlier than the current time, GET /api/auth/session
\* never returns authenticated:true, and POST /api/auth/qr-authenticate
\* does not succeed (404 once the request has a token, an address and a
\* signature; 400 before that) and does not mark it authenticated, also when
\* the handler passed its expiry check before the session expired and wrote
\* the session back afterwards.
C23_NeverAuthenticatesAfterExpiry ==
    /\ (Polled /\ last.authenticated)
       => ~(sessions.heap[last.token.value].expiresAt < last.at)
    /\ (QrAnswered /\ sessions.heap[last.token.value].expiresAt < last.at)
       => last.status \in {400, 404}

----------------------------------------------------------------------------
(* Properties of /api/posts/[id]/like, checked under LikeSpec *)

\* The last step belongs to a like request that got past the checks.
LikeHandled(method) ==
    /\ last.op = "/api/posts/[id]/like"
    /\ last.method = method
    /\ "likedAlready" \in DOMAIN last

\* C24: liking is idempotent and unique per user: under every interleaving of
\* POST and DELETE /api/posts/{id}/like requests there is at most one
\* post_likes row per (postId, userId); a POST by a user who already likes
\* the post inserts no row and returns liked:true with 200; a DELETE leaves
\* no row of the pair.
C24_LikingIsIdempotentAndUnique ==
    /\ \A i, j \in DOMAIN store.postLikes :
        (/\ store.postLikes[i].postId = store.postLikes[j].postId
         /\ store.postLikes[i].userId = store.postLikes[j].userId) => i = j
    /\ (LikeHandled("POST") /\ last.likedAlready)
       => (~last.wrote /\ last.status = 200 /\ last.liked)
    /\ (LikeHandled("DELETE") /\ last.wrote)
       => LikesOf(last.id.value, last.userId) = <<>>

----------------------------------------------------------------------------
(* Properties of /api/events/[id]/rsvp, checked under RsvpSpec *)

\* The last request was made to the route with this method.
Rsvp(method) ==
    /\ last.op = "/api/events/[id]/rsvp"
    /\ last.req.method = method

\* Who the last request presents: a user of the users table, or nobody.
RsvpCaller ==
    LET userId == Lookup(last.req.query, "userId")
    IN  IF userId # Undefined /\ \E u \in UsersTable : u.id = userId.value
        THEN userId.value
        ELSE NONE

\* The last request names an event that exists.
RsvpEventExists ==
    /\ last.req.id # Undefined
    /\ \E i \in DOMAIN last.before.events :
        last.before.events[i].id = last.req.id.value

\* The last request carries one of the three statuses.
RsvpStatusValid ==
    /\ "status" \in DOMAIN last.req.body
    /\ last.req.body["status"].value \in RSVP_STATUSES

\* The rows of the other (eventId, userId) pairs.
OtherRsvps(rows, eventId, userId) ==
    SelectSeq(rows,
              LAMBDA row : ~(row.eventId = eventId /\ row.userId = userId))

\* C25: RSVP is an upsert: a successful POST /api/events/{id}/rsvp leaves
\* exactly one event_rsvps row for the caller and the event, with the status
\* it posted, whatever was there before, and leaves every other row as it
\* was; a POST with a status outside going/interested/not_going, by an
\* unauthenticated caller or for a nonexistent event is answered 400, 401 or
\* 404 and changes no row, so the row keeps the status of the last
\* successful POST; a DELETE removes the caller's row for the event; no pair
\* ever has two rows.
C25_RsvpIsAnUpsert ==
    /\ \A i, j \in DOMAIN store.eventRsvps :
        (/\ store.eventRsvps[i].eventId = store.eventRsvps[j].eventId
         /\ store.eventRsvps[i].userId = store.eventRsvps[j].userId) => i = j
    /\ (Rsvp("POST") /\ RsvpEventExists /\ RsvpCaller # NONE
        /\ RsvpStatusValid)
       => LET mine == RsvpsOf(store.eventRsvps, last.req.id.value, RsvpCaller)
          IN  /\ last.status \in {200, 201}
              /\ Len(mine) = 1
              /\ mine[1].status = last.req.body["status"].value
              /\ OtherRsvps(store.eventRsvps, last.req.id.value, RsvpCaller)
                 = OtherRsvps(last.before.eventRsvps, last.req.id.value,
                              RsvpCaller)
    /\ (Rsvp("POST")
        /\ ~(RsvpEventExists /\ RsvpCaller # NONE /\ RsvpStatusValid))
       => /\ last.status \in {400, 401, 404}
          /\ store = last.before
    /\ (Rsvp("DELETE") /\ RsvpEventExists /\ RsvpCaller # NONE)
       => /\ last.status = 200
          /\ RsvpsOf(store.eventRsvps, last.req.id.value, RsvpCaller) = <<>>
          /\ OtherRsvps(store.eventRsvps, last.req.id.value, RsvpCaller)
             = OtherRsvps(last.before.eventRsvps, last.req.id.value,
                          RsvpCaller)

\* u_user, whose row said going beside a row of u_org, posts interested and is
\* answered 200.
C25_Witness ==
    /\ Rsvp("POST")
    /\ RsvpCaller = "u_user"
    /\ last.status = 200
    /\ Len(last.before.eventRsvps) = 2
    /\ RsvpsOf(last.before.eventRsvps, 1, "u_user")[1].status = "going"
    /\ RsvpsOf(store.eventRsvps, 1, "u_user")[1].status = "interested"

----------------------------------------------------------------------------
(* Properties of sendBroadcastEmail, checked under SendSpec *)

Sent == last.op = "sendBroadcastEmail"

RECURSIVE Flatten(_)
Flatten(seqs) ==
    IF seqs = <<>> THEN <<>> ELSE Head(seqs) \o Flatten(Tail(seqs))

\* The e-mails of a batch the provider reports an id for.
Accepted(batch, behaviour) ==
    CASE behaviour = "all" -> Len(batch)
      [] behaviour = "all but one" -> Len(batch) - 1
      [] OTHER -> 0

RECURSIVE AcceptedIn(_, _)
AcceptedIn(batches, behaviours) ==
    IF batches = <<>> THEN 0
    ELSE Accepted(Head(batches), Head(behaviours))
         + AcceptedIn(Tail(batches), Tail(behaviours))

\* C27: sendBroadcastEmail accounts for every recipient exactly once: for
\* every recipient list and every outcome of each batch (provider error,
\* thrown exception, partial success) it returns a result with
\* total = recipients.length and sent + failed = total; the recipients are
\* handed over in batches of at most 100 that together are the list; every
\* batch is counted whatever happened to the batches before it: sent is the
\* number of e-mails the provider reported an id for over all batches, and
\* there is one error message per batch that failed.
C27_EveryRecipientCountedOnce ==
    Sent =>
        /\ last.out.total = Len(last.recipients)
        /\ last.out.sent + last.out.failed = last.out.total
        /\ last.out.sent \in 0..last.out.total
        /\ \A b \in DOMAIN last.batches : Len(last.batches[b]) \in 1..100
        /\ Flatten(last.batches) = last.recipients
        /\ Len(last.behaviours) = Len(last.batches)
        /\ last.out.sent = AcceptedIn(last.batches, last.behaviours)
        /\ Len(last.out.errors)
           = Cardinality({b \in DOMAIN last.behaviours :
                            last.behaviours[b] \in {"throws", "error"}})

\* 201 recipients: the first batch is answered an error, the second is
\* accepted but for one e-mail, the send of the third throws.
C27_Witness ==
    /\ Sent
    /\ Len(last.recipients) = 201
    /\ last.behaviours = <<"error", "all but one", "throws">>
    /\ last.out.sent = 99
    /\ last.out.failed = 102
    /\ Len(last.out.errors) = 2

----------------------------------------------------------------------------
(* Properties of the broadcast lifecycle, checked under LifecycleSpec *)

\* The last step was a POST that created a broadcast.
BroadcastCreated ==
    /\ Broadcasting
    /\ last.req.method = "POST"
    /\ last.status \in {0, 200}
    /\ Len(store.broadcasts) = Len(last.before.broadcasts) + 1

\* const { sendNow = true } = req.body, as the request gives it.
SendsNow(q) ==
    "sendNow" \in DOMAIN q.body => q.body["sendNow"] = Boolean(TRUE)

\* The broadcast row with this id.
BroadcastRow(id) ==
    store.broadcasts[CHOOSE i \in DOMAIN store.broadcasts :
                        store.broadcasts[i].id = id]

\* A handler is at work on the broadcast with this id.
Handling(id) ==
    \E r \in RequestIds :
        /\ calls[r].pc \in {"sendBroadcastEmail", "update"}
        /\ calls[r].broadcastId = id

\* What each step of a POST leaves behind.
C26_Steps ==
    /\ (BroadcastCreated /\ ~SendsNow(last.req))
       => /\ last.status = 200
          /\ store.broadcasts[Len(store.broadcasts)].status = "draft"
          /\ store.outbox = last.before.outbox
    /\ (BroadcastCreated /\ SendsNow(last.req))
       => /\ store.broadcasts[Len(store.broadcasts)].status = "sending"
          /\ Handling(store.broadcasts[Len(store.broadcasts)].id)
          /\ store.outbox = last.before.outbox
    /\ last.op = "/api/admin/broadcasts: send"
       => /\ BroadcastRow(last.broadcastId).status = "sending"
          /\ Len(store.outbox) \in
               {Len(last.before.outbox), Len(last.before.outbox) + 1}
          /\ last.out.total = 0 => store.outbox = last.before.outbox
    /\ (last.op = "/api/admin/broadcasts: update" /\ last.status = 200)
       => /\ BroadcastRow(last.broadcastId).status \in {"failed", "sent"}
          /\ BroadcastRow(last.broadcastId).status = "failed"
             <=> (last.out.failed > 0 /\ last.out.sent = 0)
          /\ last.out.total = 0
             => BroadcastRow(last.broadcastId).status = "sent"
    /\ \A i \in DOMAIN store.outbox :
        \E j \in DOMAIN store.broadcasts :
            /\ store.broadcasts[j].id = store.outbox[i].broadcastId
            /\ store.broadcasts[j].status # "draft"

\* The broadcast with this id is being sent.
Sending(id) ==
    \E i \in DOMAIN store.broadcasts :
        store.broadcasts[i].id = id /\ store.broadcasts[i].status = "sending"

\* The broadcast with this id has ended as sent or failed, or the database
\* has just refused the update of its row.
Ended(id) ==
    \/ \E i \in DOMAIN store.broadcasts :
        /\ store.broadcasts[i].id = id
        /\ store.broadcasts[i].status \in {"sent", "failed"}
    \/ /\ last.op = "/api/admin/broadcasts: update"
       /\ last.broadcastId = id
       /\ last.status = 500

\* A row stays, and a status other than sending stays what it is; the
\* handler of a broadcast in sending leaves it only ended.
C26_NeverBack ==
    /\ \A id \in 1..MaxRows :
        (Sending(id) /\ Handling(id) /\ ~Handling(id)') => Ended(id)'
    /\ \A i \in DOMAIN store.broadcasts :
        /\ i \in DOMAIN store'.broadcasts
        /\ store'.broadcasts[i].id = store.broadcasts[i].id
        /\ store.broadcasts[i].status \in {"draft", "sent", "failed"}
           => store'.broadcasts[i].status = store.broadcasts[i].status
        /\ store'.broadcasts[i].status \in {"sending", "draft"}
           => store'.broadcasts[i] = store.broadcasts[i]

\* C26: the broadcast status lifecycle: a broadcast created with sendNow
\* false is stored as draft and no e-mail is sent for it; one created with
\* sendNow true or left out is stored as sending before any e-mail is sent
\* and, once sending has finished and the update is written, ends as failed
\* exactly when failed > 0 and sent = 0 and as sent otherwise, the
\* zero-recipient case included; a status never moves back from sent or
\* failed to sending or draft; and a broadcast that is sent now does not
\* remain in sending: its handler goes on until the row has ended, unless
\* the database refuses the update.
C26_BroadcastLifecycle ==
    /\ []C26_Steps
    /\ [][C26_NeverBack]_vars
    /\ \A id \in 1..MaxRows : (Sending(id) /\ Handling(id)) ~> Ended(id)

\* One of two e-mails was accepted and the broadcast ended as sent.
C26_Witness ==
    /\ last.op = "/api/admin/broadcasts: update"
    /\ last.status = 200
    /\ last.out.sent = 1
    /\ last.out.failed = 1
    /\ BroadcastRow(last.broadcastId).status = "sent"
    /\ BroadcastRow(last.broadcastId).sentCount = 1

----------------------------------------------------------------------------
(* Properties of TenantProvider, checked under ProviderSpec *)

\* Every fetch the provider has started has settled.
AllSettled == provider.mounted /\ provider.loads = {}

\* C28: TenantProvider's loading settles on the current tenant: once every
\* fetch has settled, the provided config, and the active config set by
\* setActiveConfig, are the ones the load for the current tenantId has set,
\* also when an earlier tenant's response came later, and isLoading is
\* false; a fetch that ends in a 404 or fails falls back to
\* defaultCommunityConfig.
C28_SettlesOnCurrentTenant ==
    /\ AllSettled
       => /\ provider.current.id = provider.started
          /\ provider.config = provider.current.config
          /\ provider.activeConfig = setActiveConfig(provider.current.config)
          /\ provider.isLoading = FALSE
    /\ (last.op = "fetch settles" /\ last.status # 200)
       => /\ provider.config = defaultCommunityConfig
          /\ provider.activeConfig = defaultCommunityConfig

=============================================================================
